---- MODULE Spec2Model ----
(***************************************************************************)
(* Blink: hotkey-triggered assistant.  A model of the request lifecycle:   *)
(*   - ConversationHistory      (src/src/history_manager.py)               *)
(*   - HotkeyManager            (src/src/hotkey_manager.py)                *)
(*   - DirectStreamHandler      (src/src/output_handler.py)                *)
(* Text is a sequence of characters; a message is a record                 *)
(* [role, content].                                                        *)
(***************************************************************************)
EXTENDS Integers, Sequences, FiniteSets, TLC

VARIABLES
    \* ---- ConversationHistory (history_manager.py) ----
    history,               \* self.history: the deque's items, oldest first
    history_maxlen,        \* self.history.maxlen
    memory_max_messages,   \* config value "memory_max_messages"
    \* observers of the history operations
    addLog,                \* the messages passed to add_message since construction or clear()
    preResize,             \* get_history() taken just before the last update_maxlen()
    lastOp,                \* the last history operation that ran
    resizeCap,             \* configured capacity at the last update_maxlen(), -1 before
    \* ---- system resources shared with the desktop ----
    clipboard,             \* content of the system clipboard
    foreground,            \* win32gui.GetForegroundWindow()
    \* ---- DirectStreamHandler (output_handler.py) ----
    token_queue,           \* self.token_queue
    original_clipboard,    \* self.original_clipboard
    target_window_handle,  \* self.target_window_handle
    stop_event,            \* self.stop_event
    pause_event,           \* self._pause_event
    status,                \* self.status
    token_count,           \* self.token_count
    is_streaming,          \* self.is_streaming
    buffer,                \* _consume_tokens: local buffer
    sentinel,              \* _consume_tokens: the token just taken was None
    cpc,                   \* position of the consumer thread
    mpc,                   \* position of the focus-monitor thread
    opc,                   \* position of the thread that owns the session
    spc,                   \* position of a thread calling stop()
    \* observers of the session
    clipAtStart,           \* clipboard content immediately before start_streaming
    submitted,             \* concatenation of the non-null chunks given to stream_token
    pasted,                \* text inserted by the Ctrl+V keystrokes, in paste order
    offTarget,             \* a Ctrl+V was sent while another window had the focus
    timeout_errors,        \* calls of on_error("timeout", ...) in this session
    final_status,          \* the status wait_for_completion returned, "none" before
    flushed,               \* the text handed to _paste_text so far, in order
    consumer_raised,       \* _consume_tokens caught an exception in its outer handler
    \* ---- TextCapturer (text_capturer.py) ----
    selection,             \* the text selected in the focused application, <<>> if none
    tpc,                   \* position of the thread inside capture_selected_text_with_rect
    cap_original,          \* _capture_with_clipboard: local original_clipboard
    captured_text,         \* _capture_with_clipboard: local captured_text
    cap_result,            \* the text the last capture call returned
    ctrl_c_sent,           \* the current capture call simulated Ctrl+C
    capture_calls,         \* capture calls made so far
    clipBefore,            \* clipboard content when the current capture call began
    \* ---- LLMInterface (llm_interface.py) ----
    selected_model,        \* self.selected_model, as a sequence of its parts and colons
    openai_client,         \* self.openai_client is not None
    gemini_available,      \* self.gemini_available
    qpc,                   \* position of the thread inside query()
    backend,               \* the query_* method query() called, "none" if none
    backend_calls,         \* calls of query_* methods made by query()
    model_name,            \* the model argument passed to the query_* method
    on_chunk_log,          \* the arguments of the on_chunk calls, in call order
    emitted,               \* the non-empty fragments the provider emitted and query() read
    query_raised,          \* the exception query() raised, "none" if none
    failure,               \* what went wrong with the provider during query()
    lines_read,            \* stream items read so far
    \* ---- configuration read by HotkeyManager (config_manager.py) ----
    output_mode,           \* "output_mode"
    enable_retry,          \* "enable_retry"
    max_retries,           \* "max_retries"
    memory_enabled,        \* "memory_enabled"
    system_prompt,         \* "system_prompt"
    \* ---- observer of the provider calls ----
    sent,                  \* the message list of the last provider call, <<>> before
    \* ---- HotkeyManager (hotkey_manager.py) ----
    is_processing,         \* self.is_processing
    cb,                    \* position of each hotkey's callback
    wpc,                   \* position of each worker thread
    kind,                  \* the hotkey that started the worker
    attempt,               \* process: local attempt
    success,               \* process: local success
    chunks,                \* chunks the provider emitted in the worker's last query
    \* observers of the requests
    captures,              \* capture attempts of the worker
    queries,               \* provider calls of the worker
    sawContent,            \* a capture of the worker returned or raised something
    result,                \* what the worker reported at the end
    \* ---- OverlayUI signals and keyboard, as each worker drives them ----
    resets,                \* reset_signal emissions of the worker
    shows,                 \* show_signal emissions of the worker
    overlay_last,          \* what the worker's last append_signal carried, "none" before
    released,              \* the worker ran the kb.release calls of its finally block
    caught,                \* an except clause of the worker caught an exception
    \* ---- the memory singleton and the application's life (history_manager.py, main.py) ----
    conversation_history,  \* the module global: an instance, or "None"
    instances,             \* the ConversationHistory instances created in this process
    inst_config,           \* each instance's self.config_manager
    inst_history,          \* each instance's self.history, oldest first
    inst_maxlen,           \* each instance's self.history.maxlen
    gpc,                   \* position of each thread inside get_conversation_history
    garg,                  \* the config_manager argument of the thread's call
    returned,              \* the instance the thread's last call returned, "None" before
    app,                   \* the application process: "running" or "stopped"
    storage,               \* the messages held by durable storage
    quit_snapshot,         \* get_history() of the memory at the last quit
    restarts,              \* times the application was started again
    mem_adds,              \* add_message calls since the process started
    \* ---- LLMInterface: the model-list cache (llm_interface.py) ----
    cached_models,         \* self._cached_models, NoneVal for None
    models_cache_time,     \* self._models_cache_time, -1 for None
    now,                   \* time.time(), in seconds
    ticks,                 \* steps the clock has made
    models_result,         \* the list the last get_available_models call returned
    result_is_cache,       \* that list is the very object self._cached_models
    \* observers of the cache
    probes,                \* calls that probed the servers
    cached_at,             \* the time at which the cache was last filled, -1 if never
    refreshed,             \* refresh_models_cache ran since the cache was last filled
    last_call,             \* whether the last call probed: "none", "hit" or "miss"
    \* ---- ClipboardManager: classification (clipboard_manager.py) ----
    clip_formats,          \* the native formats present on the clipboard
    clip_text,             \* the text pyperclip.paste() would read
    clip_open,             \* this process holds the native clipboard open
    content_type,          \* the value the last classification returned, "none" before
    classify_raised,       \* the last classification raised instead of returning
    \* observers of the classification
    open_failures,         \* OpenClipboard failures in a row the last call met
    open_tries,            \* OpenClipboard calls the last call made
    paste_raised,          \* the text fallback of the last call raised
    classified,            \* the clipboard is as the last classification saw it
    \* ---- ConfigManager and its file (config_manager.py) ----
    config_file,           \* the file at config_path: its kind and, for JSON, its object
    managers,              \* each ConfigManager: its state and its self.config
    \* observers of the configuration
    written,               \* per key, the value of the last set() that returned
    file_before,           \* the file as the last constructor found it
    conf_op,               \* the last operation: what, on which manager, with which key
    \* ---- ConversationHistory with the identity of its message objects ----
    objects,               \* the message dicts created so far, by number
    mem_refs,              \* self.history: the numbers of its dicts, oldest first
    mem_refs_maxlen,       \* self.history.maxlen
    snap_list,             \* the list a get_history() call returned: numbers of dicts
    snap_taken,            \* get_history() has returned a list
    \* observers of the snapshot
    snap_expected,         \* the messages of that list as its holder left them
    mem_expected,          \* the messages of the memory as its own calls left them
    \* ---- one request in direct_stream mode and the target window ----
    ds_pc,                 \* where process() is: "capture", "query", "done"
    ds_attempt,            \* the local attempt of process()
    ds_success,            \* the local success of process()
    \* observers of the request
    ds_window,             \* per chunk pasted into the target window, its attempt
    ds_failed,             \* the attempts that ended in failure
    \* ---- the multimodal lookups ----
    multimodal_models,     \* the "multimodal_models" setting: pairs in dict order
    llm_answer,            \* what LLMInterface.is_multimodal() returned last
    config_answer          \* what is_multimodal_model(selected_model) returned then

histVars == <<history, history_maxlen, memory_max_messages, addLog, preResize,
              lastOp, resizeCap>>

strVars == <<clipboard, foreground, token_queue, original_clipboard,
             target_window_handle, stop_event, pause_event, status, token_count,
             is_streaming, buffer, sentinel, cpc, mpc, opc, spc,
             clipAtStart, submitted, pasted, offTarget, timeout_errors,
             final_status, flushed, consumer_raised>>

capVars == <<selection, tpc, cap_original, captured_text, cap_result, ctrl_c_sent,
             capture_calls, clipBefore>>

llmVars == <<selected_model, openai_client, gemini_available, qpc, backend,
             backend_calls, model_name, on_chunk_log, emitted, query_raised,
             failure, lines_read>>

cfgVars == <<output_mode, enable_retry, max_retries, memory_enabled, system_prompt>>

asmVars == <<sent>>

hkVars == <<is_processing, cb, wpc, kind, attempt, success, chunks, captures,
            queries, sawContent, result>>

ovVars == <<resets, shows, overlay_last, released, caught>>

memVars == <<conversation_history, instances, inst_config, inst_history,
             inst_maxlen, gpc, garg, returned, app, storage, quit_snapshot,
             restarts, mem_adds>>

cacheVars == <<cached_models, models_cache_time, now, ticks, models_result,
               result_is_cache, probes, cached_at, refreshed, last_call>>

clipVars == <<clip_formats, clip_text, clip_open, content_type, classify_raised,
              open_failures, open_tries, paste_raised, classified>>

confVars == <<config_file, managers, written, file_before, conf_op>>

snapVars == <<objects, mem_refs, mem_refs_maxlen, snap_list, snap_taken,
              snap_expected, mem_expected>>

dsVars == <<ds_pc, ds_attempt, ds_success, ds_window, ds_failed>>

mmVars == <<multimodal_models, llm_answer, config_answer>>

extVars == <<memVars, cacheVars, clipVars, confVars, snapVars, dsVars, mmVars>>

baseVars == <<histVars, strVars, capVars, llmVars, cfgVars, hkVars, asmVars, ovVars>>

vars == <<histVars, strVars, capVars, llmVars, cfgVars, hkVars, asmVars, ovVars,
          extVars>>

------------------------------------------------------------------------------
(* Bounds of the model *)

MaxCap == 2        \* capacities are drawn from 0..MaxCap
MaxAdds == 3       \* add_message calls per run
NumContents == 1   \* distinct message contents
MaxChunks == 2     \* non-null chunks given to stream_token in one session
MaxRetries == 2    \* max_retries is drawn from 0..MaxRetries
MaxCaptures == 2   \* calls of capture_selected_text_with_rect in one run
MaxLines == 3        \* stream items read from the provider in one query
MaxRestarts == 1     \* times the application is started again
MaxProbes == 2       \* get_available_models calls that probe the servers
MaxTicks == 3         \* steps of the clock in one run
MaxOpenFailures == 5  \* OpenClipboard failures in a row at the start of one call

------------------------------------------------------------------------------
(* Helpers *)

Min(a, b) == IF a <= b THEN a ELSE b

\* The last n elements of s.
LastN(s, n) == SubSeq(s, Len(s) - n + 1, Len(s))

IsPrefix(p, s) == Len(p) <= Len(s) /\ SubSeq(s, 1, Len(p)) = p

Roles == {"user", "assistant"}
Contents == {<<"m", i>> : i \in 1..NumContents}
Message(role, content) == [role |-> role, content |-> content]

------------------------------------------------------------------------------
(* Text.  A text is a sequence of characters.  The character "W" stands for *)
(* a run of buffer_size_limit letters without a boundary (one long word),   *)
(* so that the size threshold of the flush policy is reached by a chunk.    *)

buffer_size_limit == 150

CharWidth(c) == IF c = "W" THEN buffer_size_limit ELSE 1

\* len(text)
RECURSIVE TextLen(_)
TextLen(t) == IF t = <<>> THEN 0 ELSE CharWidth(Head(t)) + TextLen(Tail(t))

\* The characters on which _consume_tokens flushes the buffer.
BoundaryChars == {" ", "\n", "\t", ".", ",", "!", "?", ";", ":"}

\* token.endswith((' ', '\n', '\t', '.', ',', '!', '?', ';', ':'))
EndsWithBoundary(t) == t # <<>> /\ t[Len(t)] \in BoundaryChars

\* The chunks a provider emits: a word fragment, a punctuation mark, a long word.
Chunks == {<<"a">>, <<".">>, <<"W">>}

\* The chunks of a delivery: those, a chunk that ends with a space, and one
\* that ends with a carriage return, a whitespace character endswith() is not
\* given.
DeliveryChunks == Chunks \cup {<<"a", " ">>, <<"\r">>}

\* None: the end-of-stream sentinel in the queue, the missing clipboard snapshot.
NoneVal == <<"None">>

\* Clipboard content that is not text (a bitmap, a file-drop list).
ImageContent == <<"IMAGE">>

\* What the clipboard may hold when a session starts.
ClipContents == {<<"o">>, ImageContent}

\* pyperclip.paste(): the clipboard's text, '' when it holds no text.
ClipRead(c) == IF c = ImageContent THEN <<>> ELSE c

Windows == {"target", "other"}

------------------------------------------------------------------------------
(* DirectStreamHandler *)

\* threading.Event.set() on _pause_event: a thread blocked in wait() is
\* notified and returns from wait(), whatever happens to the flag afterwards.
WakeConsumer(pc) == IF pc = "blocked" THEN "get" ELSE pc

\* DirectStreamHandler.__init__, with the desktop as it is at that moment.
StreamConstructed ==
    /\ foreground = "target"
    /\ token_queue = <<>>
    /\ original_clipboard = NoneVal
    /\ target_window_handle = "none"
    /\ stop_event = FALSE
    /\ pause_event = FALSE
    /\ status = "idle"
    /\ token_count = 0
    /\ is_streaming = FALSE
    /\ buffer = <<>>
    /\ sentinel = FALSE
    /\ cpc = "idle" /\ mpc = "idle" /\ opc = "new" /\ spc = "idle"
    /\ clipAtStart = clipboard
    /\ submitted = <<>>
    /\ pasted = <<>>
    /\ offTarget = FALSE
    /\ timeout_errors = 0
    /\ final_status = "none"
    /\ flushed = <<>>
    /\ consumer_raised = FALSE

StreamInit ==
    /\ clipboard \in ClipContents
    /\ StreamConstructed

\* DirectStreamHandler.start_streaming.  readOk: pyperclip.paste() returned.
start_streaming(readOk) ==
    /\ opc = "new"
    /\ target_window_handle' = foreground
    /\ original_clipboard' = IF readOk THEN ClipRead(clipboard) ELSE NoneVal
    /\ clipAtStart' = clipboard
    /\ status' = "streaming"
    /\ token_count' = 0
    /\ is_streaming' = TRUE
    /\ pause_event' = TRUE
    /\ cpc' = "loop"
    /\ mpc' = "check"
    /\ opc' = "streaming"
    /\ UNCHANGED <<clipboard, foreground, token_queue, stop_event, buffer, sentinel,
                   spc, submitted, pasted, offTarget>>
    /\ UNCHANGED <<timeout_errors, final_status, flushed, consumer_raised>>

\* DirectStreamHandler.stream_token(token), token not None.
stream_token(token) ==
    /\ opc = "streaming"
    /\ token_count < MaxChunks
    /\ token_count' = token_count + 1
    /\ token_queue' = Append(token_queue, token)
    /\ submitted' = submitted \o token
    /\ UNCHANGED <<clipboard, foreground, original_clipboard, target_window_handle,
                   stop_event, pause_event, status, is_streaming, buffer, sentinel,
                   cpc, mpc, opc, spc, clipAtStart, pasted, offTarget>>
    /\ UNCHANGED <<timeout_errors, final_status, flushed, consumer_raised>>

\* DirectStreamHandler.stream_token(None), followed by the call of
\* wait_for_completion, which blocks in consumer_thread.join(timeout).
stream_token_none ==
    /\ opc = "streaming"
    /\ token_queue' = Append(token_queue, NoneVal)
    /\ opc' = "wait"
    /\ UNCHANGED <<clipboard, foreground, original_clipboard, target_window_handle,
                   stop_event, pause_event, status, token_count, is_streaming, buffer,
                   sentinel, cpc, mpc, spc, clipAtStart, submitted, pasted, offTarget>>
    /\ UNCHANGED <<timeout_errors, final_status, flushed, consumer_raised>>

\* DirectStreamHandler._restore_clipboard.  copyOk: pyperclip.copy() returned.
RestoredClipboard(copyOk) ==
    IF original_clipboard # NoneVal /\ copyOk THEN original_clipboard ELSE clipboard

\* A mutation of JoinedStatus: COMPLETE whatever the status was.
JoinedStatusOverwrites(st) == "complete"

\* wait_for_completion after a join that found the consumer dead: the status
\* becomes COMPLETE only if it is still STREAMING.
JoinedStatus(st) == IF st = "streaming" THEN "complete" ELSE st

\* wait_for_completion: the join returned because the consumer has finished.
wait_joined(copyOk) ==
    /\ opc = "wait"
    /\ cpc = "done"
    /\ status' = JoinedStatus(status)
    /\ clipboard' = RestoredClipboard(copyOk)
    /\ is_streaming' = FALSE
    /\ opc' = "returned"
    /\ UNCHANGED <<foreground, token_queue, original_clipboard, target_window_handle,
                   stop_event, pause_event, token_count, buffer, sentinel, cpc, mpc,
                   spc, clipAtStart, submitted, pasted, offTarget>>
    /\ final_status' = status'
    /\ UNCHANGED <<timeout_errors, flushed, consumer_raised>>

\* wait_for_completion: the join timed out with the consumer alive; the status
\* becomes TIMEOUT, on_error("timeout", ...) is called and _stop_all_threads
\* sets both events.
wait_timeout ==
    /\ opc = "wait"
    /\ cpc # "done"
    /\ status' = "timeout"
    /\ timeout_errors' = timeout_errors + 1
    /\ stop_event' = TRUE
    /\ pause_event' = TRUE
    /\ cpc' = WakeConsumer(cpc)
    /\ opc' = "joining"
    /\ UNCHANGED <<clipboard, foreground, token_queue, original_clipboard,
                   target_window_handle, token_count, is_streaming, buffer, sentinel,
                   mpc, spc, clipAtStart, submitted, pasted, offTarget>>
    /\ UNCHANGED <<final_status, flushed, consumer_raised>>

\* _stop_all_threads: the two joins (timeout=2.0 each) return, because the
\* threads ended or because the time passed; then wait_for_completion's
\* finally block restores the clipboard and TIMEOUT is returned.
timeout_return(copyOk) ==
    /\ opc = "joining"
    /\ clipboard' = RestoredClipboard(copyOk)
    /\ is_streaming' = FALSE
    /\ opc' = "returned"
    /\ UNCHANGED <<foreground, token_queue, original_clipboard, target_window_handle,
                   stop_event, pause_event, status, token_count, buffer, sentinel,
                   cpc, mpc, spc, clipAtStart, submitted, pasted, offTarget>>
    /\ final_status' = status
    /\ UNCHANGED <<timeout_errors, flushed, consumer_raised>>

\* DirectStreamHandler.stop, called from another thread during a session:
\* _stop_all_threads sets the stop event, then the pause event.
stop_call ==
    /\ spc = "idle"
    /\ opc \in {"streaming", "wait"}
    /\ stop_event' = TRUE
    /\ pause_event' = TRUE
    /\ cpc' = WakeConsumer(cpc)
    /\ spc' = "joining"
    /\ UNCHANGED <<clipboard, foreground, token_queue, original_clipboard,
                   target_window_handle, status, token_count, is_streaming, buffer,
                   sentinel, mpc, opc, clipAtStart, submitted, pasted, offTarget>>
    /\ UNCHANGED <<timeout_errors, final_status, flushed, consumer_raised>>

\* stop: the two joins (timeout=2.0 each) return, and stop() with them.
stop_return ==
    /\ spc = "joining"
    /\ spc' = "returned"
    /\ UNCHANGED <<clipboard, foreground, token_queue, original_clipboard,
                   target_window_handle, stop_event, pause_event, status, token_count,
                   is_streaming, buffer, sentinel, cpc, mpc, opc, clipAtStart,
                   submitted, pasted, offTarget>>
    /\ UNCHANGED <<timeout_errors, final_status, flushed, consumer_raised>>

\* _consume_tokens: the loop condition "while not self.stop_event.is_set()".
consumer_check_stop ==
    /\ cpc = "loop"
    /\ cpc' = IF stop_event THEN "done" ELSE "gate"
    /\ UNCHANGED <<clipboard, foreground, token_queue, original_clipboard,
                   target_window_handle, stop_event, pause_event, status, token_count,
                   is_streaming, buffer, sentinel, mpc, opc, spc, clipAtStart,
                   submitted, pasted, offTarget>>
    /\ UNCHANGED <<timeout_errors, final_status, flushed, consumer_raised>>

\* _consume_tokens: self._pause_event.wait() returns at once when the event is
\* set and blocks the thread otherwise.
consumer_gate ==
    /\ cpc = "gate"
    /\ cpc' = IF pause_event THEN "get" ELSE "blocked"
    /\ UNCHANGED <<clipboard, foreground, token_queue, original_clipboard,
                   target_window_handle, stop_event, pause_event, status, token_count,
                   is_streaming, buffer, sentinel, mpc, opc, spc, clipAtStart,
                   submitted, pasted, offTarget>>
    /\ UNCHANGED <<timeout_errors, final_status, flushed, consumer_raised>>

\* A mutation of ShouldPaste: only the size of the buffer decides.
ShouldPasteSizeOnly(buf, token) == TextLen(buf) >= buffer_size_limit

\* The flush decision of _consume_tokens for the buffer after adding token.
ShouldPaste(buf, token) ==
    TextLen(buf) >= buffer_size_limit \/ EndsWithBoundary(token)

\* _consume_tokens: token_queue.get() returns a token.  The sentinel flushes
\* what is buffered and ends the loop; a chunk is buffered and flushed when
\* the flush decision says so.
consumer_get ==
    /\ cpc = "get"
    /\ token_queue # <<>>
    /\ token_queue' = Tail(token_queue)
    /\ LET token == Head(token_queue) IN
       IF token = NoneVal
       THEN /\ sentinel' = TRUE
            /\ buffer' = buffer
            /\ cpc' = IF buffer # <<>> THEN "paste" ELSE "done"
       ELSE /\ sentinel' = FALSE
            /\ buffer' = buffer \o token
            /\ cpc' = IF ShouldPaste(buffer \o token, token) THEN "paste" ELSE "loop"
    /\ UNCHANGED <<clipboard, foreground, original_clipboard, target_window_handle,
                   stop_event, pause_event, status, token_count, is_streaming, mpc,
                   opc, spc, clipAtStart, submitted, pasted, offTarget>>
    /\ UNCHANGED <<timeout_errors, final_status, flushed, consumer_raised>>

\* _consume_tokens: token_queue.get(timeout=1.0) raises queue.Empty; buffered
\* text is flushed.
consumer_get_empty ==
    /\ cpc = "get"
    /\ token_queue = <<>>
    /\ sentinel' = FALSE
    /\ cpc' = IF buffer # <<>> THEN "paste" ELSE "loop"
    /\ UNCHANGED <<clipboard, foreground, token_queue, original_clipboard,
                   target_window_handle, stop_event, pause_event, status, token_count,
                   is_streaming, buffer, mpc, opc, spc, clipAtStart, submitted, pasted,
                   offTarget>>
    /\ UNCHANGED <<timeout_errors, final_status, flushed, consumer_raised>>

\* Where _consume_tokens goes when _paste_text has returned: out of the loop
\* after the sentinel, else back to the loop condition.
AfterPaste == IF sentinel THEN "done" ELSE "loop"

\* How a call of _paste_text ends: both steps done, pyperclip.copy raised
\* PyperclipException, or pyautogui.hotkey raised PyAutoGUIException.
PasteOutcomes == {"ok", "clipboard_error", "keyboard_error"}

\* _paste_text(buffer) and what its caller does next.  pyperclip.copy puts the
\* text on the clipboard, Ctrl+V inserts the clipboard's content into the
\* window that has the focus.  An exception of either step is caught inside
\* _paste_text and sets status ERROR; the caller then empties the buffer.
paste_text(outcome) ==
    /\ cpc = "paste"
    /\ clipboard' = IF outcome = "clipboard_error" THEN clipboard ELSE buffer
    /\ pasted' = IF outcome = "ok" THEN pasted \o buffer ELSE pasted
    /\ offTarget' = (offTarget \/ (outcome = "ok" /\ foreground # target_window_handle))
    /\ status' = IF outcome = "ok" THEN status ELSE "error"
    /\ cpc' = AfterPaste
    /\ buffer' = IF sentinel THEN buffer ELSE <<>>
    /\ UNCHANGED <<foreground, token_queue, original_clipboard, target_window_handle,
                   stop_event, pause_event, token_count, is_streaming, sentinel, mpc,
                   opc, spc, clipAtStart, submitted>>
    /\ flushed' = flushed \o buffer
    /\ UNCHANGED <<timeout_errors, final_status, consumer_raised>>

\* _paste_text(buffer) raises an exception that is neither PyperclipException
\* nor PyAutoGUIException, in pyperclip.copy (atCopy) or after it.  The
\* exception leaves _paste_text and the loop and is caught by the outer
\* handler of _consume_tokens: status ERROR, on_error("consumer_error"),
\* then the buffer, which was not emptied, is handed to _paste_text once
\* more (retry: how that call ends, "raised" when it raises again, which is
\* swallowed), and the thread ends.
consumer_raise(atCopy, retry) ==
    /\ cpc = "paste"
    /\ consumer_raised' = TRUE
    /\ clipboard' = IF retry \in {"ok", "keyboard_error"} THEN buffer
                    ELSE IF atCopy THEN clipboard ELSE buffer
    /\ pasted' = IF retry = "ok" THEN pasted \o buffer ELSE pasted
    /\ offTarget' = (offTarget \/ (retry = "ok" /\ foreground # target_window_handle))
    /\ status' = "error"
    /\ cpc' = "done"
    /\ flushed' = flushed \o buffer
    /\ UNCHANGED <<foreground, token_queue, original_clipboard, target_window_handle,
                   stop_event, pause_event, token_count, is_streaming, buffer,
                   sentinel, mpc, opc, spc, clipAtStart, submitted>>
    /\ UNCHANGED <<timeout_errors, final_status>>

\* _monitor_focus: the loop condition "while not self.stop_event.is_set()".
monitor_check_stop ==
    /\ mpc = "check"
    /\ mpc' = IF stop_event THEN "done" ELSE "poll"
    /\ UNCHANGED <<clipboard, foreground, token_queue, original_clipboard,
                   target_window_handle, stop_event, pause_event, status, token_count,
                   is_streaming, buffer, sentinel, cpc, opc, spc, clipAtStart,
                   submitted, pasted, offTarget>>
    /\ UNCHANGED <<timeout_errors, final_status, flushed, consumer_raised>>

\* _monitor_focus: one poll.  The pause event is set when the target window
\* has the focus and cleared otherwise; then the thread sleeps 250 ms.
monitor_poll ==
    /\ mpc = "poll"
    /\ IF foreground = target_window_handle
       THEN /\ pause_event' = TRUE
            /\ cpc' = WakeConsumer(cpc)
       ELSE /\ pause_event' = FALSE
            /\ UNCHANGED cpc
    /\ mpc' = "check"
    /\ UNCHANGED <<clipboard, foreground, token_queue, original_clipboard,
                   target_window_handle, stop_event, status, token_count,
                   is_streaming, buffer, sentinel, opc, spc, clipAtStart, submitted,
                   pasted, offTarget>>
    /\ UNCHANGED <<timeout_errors, final_status, flushed, consumer_raised>>

\* The user brings another window to the foreground.
focus_change(w) ==
    /\ w # foreground
    /\ foreground' = w
    /\ UNCHANGED <<clipboard, token_queue, original_clipboard, target_window_handle,
                   stop_event, pause_event, status, token_count, is_streaming, buffer,
                   sentinel, cpc, mpc, opc, spc, clipAtStart, submitted, pasted,
                   offTarget>>
    /\ UNCHANGED <<timeout_errors, final_status, flushed, consumer_raised>>

ConsumerNext ==
    \/ consumer_check_stop
    \/ consumer_gate
    \/ consumer_get
    \/ consumer_get_empty
    \/ \E outcome \in PasteOutcomes : paste_text(outcome)

MonitorNext ==
    \/ monitor_check_stop
    \/ monitor_poll

------------------------------------------------------------------------------
(* ConversationHistory *)

\* A mutation of DequeAppend: a full deque refuses the new item.
DequeAppendDropNew(dq, maxlen, x) ==
    IF Len(dq) < maxlen THEN Append(dq, x) ELSE dq

\* collections.deque(maxlen=maxlen).append(x): a full deque discards its
\* leftmost item; a deque of maxlen 0 stays empty.
DequeAppend(dq, maxlen, x) ==
    IF maxlen = 0 THEN dq
    ELSE IF Len(dq) >= maxlen THEN Append(Tail(dq), x)
    ELSE Append(dq, x)

\* A mutation of DequeFrom: the copy keeps the oldest items.
DequeFromKeepOldest(items, maxlen) == SubSeq(items, 1, Min(Len(items), maxlen))

\* collections.deque(items, maxlen=maxlen): the items are appended one by one.
RECURSIVE DequeFromAcc(_, _, _)
DequeFromAcc(acc, items, maxlen) ==
    IF items = <<>> THEN acc
    ELSE DequeFromAcc(DequeAppend(acc, maxlen, Head(items)), Tail(items), maxlen)

DequeFrom(items, maxlen) == DequeFromAcc(<<>>, items, maxlen)

\* ConversationHistory._get_maxlen with a config manager.
GetMaxlen == memory_max_messages

\* ConversationHistory.get_history
GetHistory == history

\* ConversationHistory.__init__ with a config manager holding capacity c.
HistoryInit ==
    /\ memory_max_messages \in 0..MaxCap
    /\ history_maxlen = memory_max_messages
    /\ history = <<>>
    /\ addLog = <<>>
    /\ preResize = <<>>
    /\ lastOp = "init"
    /\ resizeCap = -1

\* ConversationHistory.add_message
AddMessage(role, content) ==
    /\ Len(addLog) < MaxAdds
    /\ history' = DequeAppend(history, history_maxlen, Message(role, content))
    /\ addLog' = Append(addLog, Message(role, content))
    /\ lastOp' = "add"
    /\ UNCHANGED <<history_maxlen, memory_max_messages, preResize, resizeCap>>

\* ConversationHistory.update_maxlen
UpdateMaxlen ==
    /\ preResize' = GetHistory
    /\ resizeCap' = GetMaxlen
    /\ lastOp' = "update_maxlen"
    /\ IF GetMaxlen # history_maxlen
       THEN /\ history' = DequeFrom(history, GetMaxlen)
            /\ history_maxlen' = GetMaxlen
       ELSE UNCHANGED <<history, history_maxlen>>
    /\ UNCHANGED <<memory_max_messages, addLog>>

\* ConversationHistory.clear
ClearHistory ==
    /\ history # <<>>
    /\ history' = <<>>
    /\ addLog' = <<>>
    /\ lastOp' = "clear"
    /\ UNCHANGED <<history_maxlen, memory_max_messages, preResize, resizeCap>>

\* ConfigManager.set("memory_max_messages", v)
SetMaxMessages(v) ==
    /\ v # memory_max_messages
    /\ memory_max_messages' = v
    /\ lastOp' = "config"
    /\ UNCHANGED <<history, history_maxlen, addLog, preResize, resizeCap>>

HistoryNext ==
    \/ (\E r \in Roles, c \in Contents : AddMessage(r, c) /\ UNCHANGED <<strVars, capVars, llmVars, cfgVars, hkVars, asmVars, ovVars, extVars>>)
    \/ (UpdateMaxlen /\ UNCHANGED <<strVars, capVars, llmVars, cfgVars, hkVars, asmVars, ovVars, extVars>>)
    \/ (ClearHistory /\ UNCHANGED <<strVars, capVars, llmVars, cfgVars, hkVars, asmVars, ovVars, extVars>>)
    \/ (\E v \in 0..MaxCap : SetMaxMessages(v) /\ UNCHANGED <<strVars, capVars, llmVars, cfgVars, hkVars, asmVars, ovVars, extVars>>)

------------------------------------------------------------------------------
(* The memory singleton and the application's life *)

Instances == {"i1", "i2"}
InstanceOrder == <<"i1", "i2">>

\* The threads that call get_conversation_history: the Qt main thread (tray
\* menu, quit) and a worker thread of a request.
Callers == {"main", "worker"}

\* The config managers a call can pass, besides None.
ConfigManagers == {"cfgA", "cfgB"}

\* ConversationHistory.__init__: the default of the maxlen parameter.
DefaultMaxlen == 50

\* _get_maxlen for a config manager: its "memory_max_messages", or the
\* default without a config manager.
MaxlenFor(c) ==
    IF c = "None" THEN DefaultMaxlen
    ELSE IF c = "cfgA" THEN MaxCap ELSE MaxCap - 1

\* The module at import, in a process that has just started: no instance.
MemoryFresh ==
    /\ conversation_history = "None"
    /\ instances = {}
    /\ inst_config = [i \in Instances |-> "None"]
    /\ inst_history = [i \in Instances |-> <<>>]
    /\ inst_maxlen = [i \in Instances |-> 0]
    /\ gpc = [t \in Callers |-> "idle"]
    /\ garg = [t \in Callers |-> "None"]
    /\ returned = [t \in Callers |-> "None"]
    /\ mem_adds = 0

\* The first start of the application, with nothing in durable storage.
MemoryInit ==
    /\ MemoryFresh
    /\ app = "running"
    /\ storage = <<>>
    /\ quit_snapshot = <<>>
    /\ restarts = 0

\* The instance the next ConversationHistory(...) call makes.
NextInstance(i) ==
    \E n \in 1..Len(InstanceOrder) :
        /\ InstanceOrder[n] = i
        /\ i \notin instances
        /\ \A j \in 1..(n - 1) : InstanceOrder[j] \in instances

\* get_conversation_history(c) up to the creation: "if conversation_history
\* is None" sends the thread to the constructor call; otherwise "elif
\* config_manager and conversation_history.config_manager != config_manager"
\* rebinds the instance and calls update_maxlen, and the instance is
\* returned.
get_call(t, c) ==
    /\ app = "running"
    /\ gpc[t] = "idle"
    /\ IF conversation_history = "None"
       THEN /\ gpc' = [gpc EXCEPT ![t] = "create"]
            /\ garg' = [garg EXCEPT ![t] = c]
            /\ UNCHANGED <<inst_config, inst_history, inst_maxlen, returned>>
       ELSE LET i == conversation_history
                rebind == c # "None" /\ inst_config[i] # c
                resize == rebind /\ MaxlenFor(c) # inst_maxlen[i]
            IN /\ inst_config' = [inst_config EXCEPT ![i] = IF rebind THEN c ELSE @]
               /\ inst_history' = [inst_history EXCEPT ![i] =
                                      IF resize THEN DequeFrom(@, MaxlenFor(c)) ELSE @]
               /\ inst_maxlen' = [inst_maxlen EXCEPT ![i] =
                                     IF resize THEN MaxlenFor(c) ELSE @]
               /\ returned' = [returned EXCEPT ![t] = i]
               /\ UNCHANGED <<gpc, garg>>
    /\ UNCHANGED <<conversation_history, instances, app, storage, quit_snapshot,
                   restarts, mem_adds>>

\* get_conversation_history after the check found None:
\* "conversation_history = ConversationHistory(config_manager=config_manager)"
\* and the return of the new instance.
get_create(t) ==
    /\ gpc[t] = "create"
    /\ \E i \in Instances :
          /\ NextInstance(i)
          /\ instances' = instances \cup {i}
          /\ inst_config' = [inst_config EXCEPT ![i] = garg[t]]
          /\ inst_history' = [inst_history EXCEPT ![i] = <<>>]
          /\ inst_maxlen' = [inst_maxlen EXCEPT ![i] = MaxlenFor(garg[t])]
          /\ conversation_history' = i
          /\ returned' = [returned EXCEPT ![t] = i]
    /\ gpc' = [gpc EXCEPT ![t] = "idle"]
    /\ UNCHANGED <<garg, app, storage, quit_snapshot, restarts, mem_adds>>

\* add_message(role, content) on the instance the thread's call returned.
memory_add(t, role, content) ==
    /\ app = "running"
    /\ gpc[t] = "idle"
    /\ returned[t] # "None"
    /\ mem_adds < MaxAdds
    /\ mem_adds' = mem_adds + 1
    /\ inst_history' = [inst_history EXCEPT ![returned[t]] =
                           DequeAppend(@, inst_maxlen[returned[t]], Message(role, content))]
    /\ UNCHANGED <<conversation_history, instances, inst_config, inst_maxlen, gpc,
                   garg, returned, app, storage, quit_snapshot, restarts>>

\* history_manager.save_history(): ConversationHistory has no such method,
\* so the call raises AttributeError and durable storage keeps what it held.
SaveHistory(stored, snapshot) == stored

\* main.save_history_on_quit, on aboutToQuit:
\* get_conversation_history(config_manager).save_history() inside try/except
\* Exception, then the process ends.
save_history_on_quit ==
    /\ app = "running"
    /\ \A t \in Callers : gpc[t] = "idle"
    /\ LET snapshot == IF conversation_history = "None" THEN <<>>
                       ELSE inst_history[conversation_history]
       IN /\ quit_snapshot' = snapshot
          /\ storage' = SaveHistory(storage, snapshot)
    /\ app' = "stopped"
    /\ UNCHANGED <<conversation_history, instances, inst_config, inst_history,
                   inst_maxlen, gpc, garg, returned, restarts, mem_adds>>

\* main(): a new process; the module global is None again and nothing reads
\* durable storage.
app_start ==
    /\ app = "stopped"
    /\ restarts < MaxRestarts
    /\ restarts' = restarts + 1
    /\ app' = "running"
    /\ conversation_history' = "None"
    /\ instances' = {}
    /\ inst_config' = [i \in Instances |-> "None"]
    /\ inst_history' = [i \in Instances |-> <<>>]
    /\ inst_maxlen' = [i \in Instances |-> 0]
    /\ gpc' = [t \in Callers |-> "idle"]
    /\ garg' = [t \in Callers |-> "None"]
    /\ returned' = [t \in Callers |-> "None"]
    /\ mem_adds' = 0
    /\ UNCHANGED <<storage, quit_snapshot>>

------------------------------------------------------------------------------
(* LLMInterface (llm_interface.py) *)

\* Model identifiers, written as their parts and the colons between them.
DefaultModel == <<"ollama", ":", "llama3.2", ":", "latest">>
ModelIds ==
    { DefaultModel, <<"openai", ":", "gpt-4">>, <<"gemini", ":", "gemini-pro">>,
      <<"lmstudio", ":", "local">>, <<"claude", ":", "x">>, <<"ollama">> }

\* str.startswith.
StartsWith(s, prefix) == IsPrefix(prefix, s)

\* A mutation of AfterFirstColon: the part after the last colon.
RECURSIVE AfterLastColon(_)
AfterLastColon(s) ==
    IF \A i \in 1..Len(s) : s[i] # ":" THEN s
    ELSE AfterLastColon(Tail(s))

\* selected_model.split(":", 1)[1] for an identifier holding a colon.
RECURSIVE AfterFirstColon(_)
AfterFirstColon(s) ==
    IF s = <<>> THEN <<>>
    ELSE IF Head(s) = ":" THEN Tail(s)
    ELSE AfterFirstColon(Tail(s))

\* query(): the if / elif chain over the prefixes; "none" is the else branch.
Dispatch(id) ==
    IF StartsWith(id, <<"ollama", ":">>) THEN "ollama"
    ELSE IF StartsWith(id, <<"openai", ":">>) THEN "openai"
    ELSE IF StartsWith(id, <<"gemini", ":">>) THEN "gemini"
    ELSE IF StartsWith(id, <<"lmstudio", ":">>) THEN "lmstudio"
    ELSE "none"

\* The texts query() hands to on_chunk besides the provider's fragments.
UnsupportedText == <<"Error: Unsupported model type">>
ErrorText(b) == <<"Error", b>>
IsErrorText(t) == t = UnsupportedText \/ (t # <<>> /\ t[1] = "Error")

\* Response fragments of a provider.
Fragments == {<<"x">>, <<"y">>}

\* What the request to the provider can fail with before any of the response
\* is read: the server is unreachable, the request times out, the server
\* answers 401 or another error status.
RequestFailures == {"connect", "timeout", "http_401", "http_500"}

\* What one item of the response stream can be.  Ollama sends lines: a
\* fragment, an object with empty content, a line that is not JSON, a line
\* that is not UTF-8, JSON that is not an object with a "message" object.  The
\* client libraries of the other providers yield chunks with or without text.
StreamItems(b) ==
    [kind : {"fragment"}, text : Fragments]
    \cup [kind : {"empty"}, text : {<<>>}]
    \cup (IF b = "ollama"
          THEN [kind : {"bad_json", "undecodable", "bad_shape"}, text : {<<>>}]
          ELSE {})

\* A mutation of OllamaError: no status is told apart.
OllamaErrorNoAuth(cause) == "LLMConnectionError"

\* query_ollama: the except clauses.
OllamaError(cause) ==
    IF cause = "http_401" THEN "LLMAuthError" ELSE "LLMConnectionError"

\* query_openai: the except clause tells an authentication failure by the
\* words of the error message.
OpenAIError(cause) ==
    IF cause = "http_401" THEN "LLMAuthError" ELSE "LLMConnectionError"

\* LLMInterface.__init__ apart from selected_model, which starts as
\* DefaultModel; the two cloud clients are configured or not, by the API keys
\* of the configuration.
QueryConstructed ==
    /\ openai_client \in BOOLEAN
    /\ gemini_available \in BOOLEAN
    /\ qpc = "idle"
    /\ backend = "none"
    /\ backend_calls = 0
    /\ model_name = <<>>
    /\ on_chunk_log = <<>>
    /\ emitted = <<>>
    /\ query_raised = "none"
    /\ failure = "none"
    /\ lines_read = 0

\* LLMInterface.set_selected_model.
set_selected_model(model) ==
    /\ qpc = "idle"
    /\ model # selected_model
    /\ selected_model' = model
    /\ UNCHANGED <<openai_client, gemini_available, qpc, backend, backend_calls,
                   model_name, on_chunk_log, emitted, query_raised, failure, lines_read>>

\* How a backend ends when the provider fails with cause: query_ollama and
\* query_openai raise, query_gemini and query_lmstudio hand the error message
\* to on_chunk and return.
BackendRaises(b, cause) ==
    IF b = "ollama" THEN OllamaError(cause)
    ELSE IF b = "openai" THEN OpenAIError(cause)
    ELSE "none"

\* query() up to the first item of the response: the dispatch, the checks of
\* the backend, and the request.  cause: "none" or what the request fails with.
query_call(cause) ==
    /\ qpc = "idle"
    /\ LET b == Dispatch(selected_model) IN
       /\ backend' = b
       /\ backend_calls' = IF b = "none" THEN 0 ELSE 1
       /\ model_name' = IF b = "none" THEN <<>> ELSE AfterFirstColon(selected_model)
       /\ IF b = "none"
          THEN /\ cause = "none"
               /\ on_chunk_log' = <<UnsupportedText>>
               /\ query_raised' = "none"
               /\ failure' = "none"
               /\ qpc' = "returned"
          ELSE IF b = "openai" /\ ~openai_client
          THEN /\ cause = "none"
               /\ on_chunk_log' = on_chunk_log
               /\ query_raised' = "LLMConfigError"
               /\ failure' = "config"
               /\ qpc' = "raised"
          ELSE IF b = "gemini" /\ ~gemini_available
          THEN /\ cause = "none"
               /\ on_chunk_log' = <<ErrorText(b)>>
               /\ query_raised' = "none"
               /\ failure' = "config"
               /\ qpc' = "returned"
          ELSE IF cause = "none"
          THEN /\ on_chunk_log' = on_chunk_log
               /\ query_raised' = "none"
               /\ failure' = "none"
               /\ qpc' = "streaming"
          ELSE /\ failure' = cause
               /\ query_raised' = BackendRaises(b, cause)
               /\ on_chunk_log' = IF BackendRaises(b, cause) = "none"
                                  THEN <<ErrorText(b)>> ELSE on_chunk_log
               /\ qpc' = IF BackendRaises(b, cause) = "none" THEN "returned" ELSE "raised"
    /\ UNCHANGED <<selected_model, openai_client, gemini_available, emitted, lines_read>>

\* One pass of the loop over the response.  A fragment is handed to on_chunk;
\* an item without text and a line json.loads rejects are skipped; a line
\* that line.decode('utf-8') rejects, or whose JSON has no .get, raises an
\* exception none of the except clauses of query_ollama catches.
query_item(item) ==
    /\ qpc = "streaming"
    /\ lines_read < MaxLines
    /\ item \in StreamItems(backend)
    /\ lines_read' = lines_read + 1
    /\ IF item.kind = "fragment"
       THEN /\ on_chunk_log' = Append(on_chunk_log, item.text)
            /\ emitted' = Append(emitted, item.text)
            /\ UNCHANGED <<qpc, query_raised, failure>>
       ELSE IF item.kind \in {"empty", "bad_json"}
       THEN UNCHANGED <<on_chunk_log, emitted, qpc, query_raised, failure>>
       ELSE /\ query_raised' = IF item.kind = "undecodable" THEN "UnicodeDecodeError"
                         ELSE "AttributeError"
            /\ failure' = "malformed"
            /\ qpc' = "raised"
            /\ UNCHANGED <<on_chunk_log, emitted>>
    /\ UNCHANGED <<selected_model, openai_client, gemini_available, backend,
                   backend_calls, model_name>>

\* The end of the loop over the response: the stream ends, or reading it
\* fails because the connection broke or stalled.
query_end(broken) ==
    /\ qpc = "streaming"
    /\ IF ~broken
       THEN /\ qpc' = "returned"
            /\ UNCHANGED <<on_chunk_log, query_raised, failure>>
       ELSE /\ failure' = "stream_broken"
            /\ query_raised' = BackendRaises(backend, "stream_broken")
            /\ on_chunk_log' = IF BackendRaises(backend, "stream_broken") = "none"
                               THEN Append(on_chunk_log, ErrorText(backend))
                               ELSE on_chunk_log
            /\ qpc' = IF BackendRaises(backend, "stream_broken") = "none"
                      THEN "returned" ELSE "raised"
    /\ UNCHANGED <<selected_model, openai_client, gemini_available, backend,
                   backend_calls, model_name, emitted, lines_read>>

------------------------------------------------------------------------------
(* HotkeyManager *)

Hotkeys == {"selection", "clipboard_context"}

\* The worker threads of a run: each admitted hotkey press starts the next
\* one.  Two of them let any two requests overlap.
Workers == {"w1", "w2"}
WorkerOrder == <<"w1", "w2">>

OutputModes == {"popup", "direct_stream"}

\* What one capture step of the retry loop yields: nothing usable (empty or
\* whitespace-only selection or instruction, empty clipboard), a file or image
\* whose extraction failed with an error the step handles itself, content to
\* send, or another exception.
CaptureOutcomes == {"empty", "extraction_failure", "content", "raise"}

\* The final statuses wait_for_completion returns for a started session.
FinalStatuses == {"complete", "error", "timeout"}

\* The text captured for a request, and the joined response of n chunks.
UserText == <<"q">>
Response(n) == [i \in 1..n |-> "r"]

\* The configuration as ConfigManager.get returns it.
ConfigInit ==
    /\ output_mode \in OutputModes
    /\ enable_retry \in BOOLEAN
    /\ max_retries \in 0..MaxRetries
    /\ memory_enabled \in BOOLEAN
    /\ system_prompt = <<"p">>

\* The locals of the worker threads and the observers before any worker ran.
WorkersFresh ==
    /\ attempt = [w \in Workers |-> 0]
    /\ success = [w \in Workers |-> FALSE]
    /\ chunks = [w \in Workers |-> 0]
    /\ captures = [w \in Workers |-> 0]
    /\ queries = [w \in Workers |-> 0]
    /\ sawContent = [w \in Workers |-> FALSE]
    /\ result = [w \in Workers |-> "none"]
    /\ sent = <<>>
    /\ resets = [w \in Workers |-> 0]
    /\ shows = [w \in Workers |-> 0]
    /\ overlay_last = [w \in Workers |-> "none"]
    /\ released = [w \in Workers |-> FALSE]
    /\ caught = [w \in Workers |-> FALSE]

\* HotkeyManager.__init__: no request in progress, no worker started.
HotkeyConstructed ==
    /\ is_processing = FALSE
    /\ cb = [k \in Hotkeys |-> "idle"]
    /\ wpc = [w \in Workers |-> "unstarted"]
    /\ kind = [w \in Workers |-> "none"]
    /\ WorkersFresh

\* on_hotkey / on_clipboard_context_hotkey of hotkey k on a new
\* HotkeyManager, up to the sleep: the flag is set and the first worker
\* thread is started.
RequestStarted(k) ==
    /\ is_processing = TRUE
    /\ cb = [h \in Hotkeys |-> IF h = k THEN "sleeping" ELSE "idle"]
    /\ wpc = [w \in Workers |-> IF w = WorkerOrder[1] THEN "start" ELSE "unstarted"]
    /\ kind = [w \in Workers |-> IF w = WorkerOrder[1] THEN k ELSE "none"]
    /\ WorkersFresh

\* The worker threads that are running.
ActiveWorkers == {w \in Workers : wpc[w] \notin {"unstarted", "done"}}

\* The worker thread the next threading.Thread(...).start() creates.
NextWorker(w) ==
    \E i \in 1..Len(WorkerOrder) :
        /\ WorkerOrder[i] = w
        /\ wpc[w] = "unstarted"
        /\ \A j \in 1..(i - 1) : wpc[WorkerOrder[j]] # "unstarted"

\* on_hotkey / on_clipboard_context_hotkey, up to the sleep: the callback
\* returns at once when is_processing is set; otherwise it sets the flag and
\* starts a worker thread running process / process_clipboard_context.
on_hotkey(k) ==
    /\ cb[k] = "idle"
    /\ IF is_processing
       THEN UNCHANGED <<is_processing, cb, wpc, kind>>
       ELSE \E w \in Workers :
              /\ NextWorker(w)
              /\ is_processing' = TRUE
              /\ cb' = [cb EXCEPT ![k] = "sleeping"]
              /\ wpc' = [wpc EXCEPT ![w] = "start"]
              /\ kind' = [kind EXCEPT ![w] = k]
    /\ UNCHANGED <<attempt, success, chunks, captures, queries, sawContent, result>>
    /\ UNCHANGED ovVars

\* on_hotkey / on_clipboard_context_hotkey after time.sleep(0.1): the finally
\* block resets is_processing and the callback returns.
on_hotkey_return(k) ==
    /\ cb[k] = "sleeping"
    /\ is_processing' = FALSE
    /\ cb' = [cb EXCEPT ![k] = "idle"]
    /\ UNCHANGED <<wpc, kind, attempt, success, chunks, captures, queries,
                   sawContent, result>>
    /\ UNCHANGED ovVars

\* A mutation of LoopContinues: the last retry is left out.
LoopContinuesOffByOne(att, succ) == att < max_retries /\ ~succ

\* A mutation of LoopContinues: the loop goes on after a success.
LoopContinuesAfterSuccess(att, succ) == att <= max_retries

\* process / process_clipboard_context: "while attempt <= max_retries and not
\* success".
LoopContinues(att, succ) == att <= max_retries /\ ~succ

\* Where a worker goes with attempt = att and success = succ: into the next
\* iteration of the retry loop, or out of it and to the end of the thread.
LoopPc(att, succ) == IF LoopContinues(att, succ) THEN "capture" ELSE "done"

\* What the worker reports when it leaves the loop: "if not success" the
\* request is reported as failed.
LoopResult(att, succ) ==
    IF LoopContinues(att, succ) THEN "none"
    ELSE IF succ THEN "succeeded" ELSE "failed"

\* A mutation of ShowsFailure: the failure message in every output mode.
ShowsFailureAlways(mode) == TRUE

\* process / process_clipboard_context after the loop: "if not success" the
\* failure message goes to the overlay 'if output_mode == "popup"'.
ShowsFailure(mode) == mode = "popup"

\* A mutation of Released: the finally block left out.
ReleasedNever(pc) == FALSE

\* process / process_clipboard_context: the finally block, with its three
\* kb.release calls, runs when the worker leaves the try statement.
Released(pc) == pc = "done"

\* The overlay and the keyboard after an iteration that leaves attempt = att
\* and success = succ, the worker having emitted r resets and s shows and
\* appended l last: when the loop ends without success and the failure is
\* shown, reset_signal, show_signal and append_signal with the failure
\* message are emitted; when the loop ends, the keys are released.
AfterIteration(w, att, succ, r, s, l) ==
    LET fails == LoopPc(att, succ) = "done" /\ ~succ /\ ShowsFailure(output_mode)
    IN /\ resets' = [resets EXCEPT ![w] = IF fails THEN r + 1 ELSE r]
       /\ shows' = [shows EXCEPT ![w] = IF fails THEN s + 1 ELSE s]
       /\ overlay_last' = [overlay_last EXCEPT ![w] = IF fails THEN "final" ELSE l]
       /\ released' = [released EXCEPT ![w] = Released(LoopPc(att, succ))]

\* process / process_clipboard_context up to the first evaluation of the loop
\* condition, with attempt = 0 and success = False.
process_start(w) ==
    /\ wpc[w] = "start"
    /\ wpc' = [wpc EXCEPT ![w] = LoopPc(0, FALSE)]
    /\ result' = [result EXCEPT ![w] = LoopResult(0, FALSE)]
    /\ AfterIteration(w, 0, FALSE, resets[w], shows[w], overlay_last[w])
    /\ UNCHANGED caught
    /\ UNCHANGED <<is_processing, cb, kind, attempt, success, chunks, captures,
                   queries, sawContent>>

\* One capture of the retry loop.  Nothing usable, or a failed extraction
\* (process_clipboard_context only): "attempt += 1; continue".  An
\* exception: the except block sets success = False, then "attempt += 1".
\* Content: the worker goes on to _process_query.
process_capture(w, outcome) ==
    /\ wpc[w] = "capture"
    /\ outcome = "extraction_failure" => kind[w] = "clipboard_context"
    /\ captures' = [captures EXCEPT ![w] = @ + 1]
    /\ sawContent' = [sawContent EXCEPT ![w] = @ \/ outcome # "empty"]
    /\ IF outcome = "content"
       THEN /\ wpc' = [wpc EXCEPT ![w] = "query"]
            /\ UNCHANGED <<attempt, success, result>>
            /\ UNCHANGED ovVars
       ELSE /\ attempt' = [attempt EXCEPT ![w] = @ + 1]
            /\ success' = [success EXCEPT ![w] = IF outcome = "raise" THEN FALSE ELSE @]
            /\ wpc' = [wpc EXCEPT ![w] = LoopPc(attempt[w] + 1, success'[w])]
            /\ result' = [result EXCEPT ![w] = LoopResult(attempt[w] + 1, success'[w])]
            /\ AfterIteration(w, attempt[w] + 1, success'[w],
                              resets[w], shows[w], overlay_last[w])
            /\ caught' = [caught EXCEPT ![w] = @ \/ outcome # "empty"]
    /\ UNCHANGED <<is_processing, cb, kind, chunks, queries>>

\* A mutation of PopupSucceeds: the attempt goes on to the commit whatever
\* the provider call did.
PopupSucceedsAlways(n, raised) == TRUE

\* What _process_popup returns after the provider call: False when the call
\* raised or no chunk was received.
PopupSucceeds(n, raised) == ~raised /\ n > 0

\* What the last append_signal of _process_popup / _process_clipboard_popup
\* carries: the error message of the except clause when the call raised, the
\* "No response" message when no chunk came, and else the last chunk.
PopupLast(n, raised) == IF raised \/ n = 0 THEN "error" ELSE "chunk"

\* What _process_direct_stream returns after the provider call: False when the
\* call raised, else whether wait_for_completion returned COMPLETE.
DirectSucceeds(n, raised, final) == ~raised /\ final = "complete"

\* str.strip() on the left.
RECURSIVE StripLeft(_)
StripLeft(t) ==
    IF t # <<>> /\ Head(t) = " " THEN StripLeft(Tail(t)) ELSE t

\* str.strip() on the right.
RECURSIVE StripRight(_)
StripRight(t) ==
    IF t # <<>> /\ t[Len(t)] = " " THEN StripRight(SubSeq(t, 1, Len(t) - 1)) ELSE t

\* str.strip().
Strip(t) == StripRight(StripLeft(t))

\* _process_query: system_messages, from the stripped "system_prompt" setting.
SystemMessages ==
    IF Strip(system_prompt) # <<>>
    THEN <<Message("system", Strip(system_prompt))>>
    ELSE <<>>

\* A mutation of CurrentHistory: the snapshot whatever the setting is.
CurrentHistoryAlways == GetHistory

\* _process_query: current_history, the snapshot of the memory if
\* "memory_enabled" is set and the empty list otherwise.
CurrentHistory == IF memory_enabled THEN GetHistory ELSE <<>>

\* What the two hotkeys make of the captured content: a text for a user
\* message, or, for an image and a multimodal model, the list holding one user
\* message with the instruction and the image.
Prompts ==
    { [is_multimodal |-> FALSE, prompt |-> <<"q">>],
      [is_multimodal |-> TRUE,
       prompt |-> <<Message("user", <<"instruction", "image">>)>>] }

\* The messages a prompt adds at the end of the list.
NewMessages(p) ==
    IF p.is_multimodal THEN p.prompt ELSE <<Message("user", p.prompt)>>

\* A mutation of MessagesToSend: the new message before the history.
MessagesNewFirst(p) == SystemMessages \o NewMessages(p) \o CurrentHistory

\* _process_query / _process_clipboard_context_query: messages_to_send.
MessagesToSend(p) == SystemMessages \o CurrentHistory \o NewMessages(p)

\* The text prompt of process().
TextPrompt == [is_multimodal |-> FALSE, prompt |-> <<"q">>]

\* The "system_prompt" setting as the configuration file can hold it: absent
\* or empty, blank, a text, a text with spaces around it.
SystemPromptTexts == {<<>>, <<" ">>, <<"p">>, <<" ", "p", " ">>}

\* SystemTray.toggle_memory: "memory_enabled" is set to its negation.
toggle_memory ==
    /\ memory_enabled' = ~memory_enabled
    /\ UNCHANGED <<output_mode, enable_retry, max_retries, system_prompt>>

\* SettingsDialog.save_settings, the system prompt: the stripped text of the
\* edit box is stored, and the key is deleted when that is empty, so that
\* get("system_prompt", "") gives the empty text.
save_system_prompt(t) ==
    /\ system_prompt' = Strip(t)
    /\ UNCHANGED <<output_mode, enable_retry, max_retries, memory_enabled>>

\* _process_query / _process_clipboard_context_query up to the call of the
\* output mode's method: messages_to_send is built from the settings, the
\* memory and the prompt.
assemble_messages(p) ==
    /\ sent' = MessagesToSend(p)

\* The selected model when a request runs: set from the "selected_model"
\* setting at startup, with a provider tag query() knows or one it does not.
HotkeyModels == {DefaultModel, <<"claude", ":", "x">>}

\* What LLMInterface.query can do in an attempt: for a model id whose tag it
\* does not know it calls on_chunk once, with UnsupportedText, and returns.
ProviderOutcome(n, raised) ==
    Dispatch(selected_model) # "none" \/ (n = 1 /\ ~raised)

\* "".join(full_response) of an attempt that received n chunks: the chunks
\* of the provider, or the one chunk query() made for an unknown tag.
FullResponse(n) ==
    IF Dispatch(selected_model) = "none" THEN UnsupportedText ELSE Response(n)

\* _process_query / _process_clipboard_context_query up to the end of the
\* stream: the provider emits n chunks and returns or raises; in direct_stream
\* mode the handler's session ends with a final status.  A failed attempt ends
\* here with "success = False; attempt += 1"; a successful one goes on to the
\* commit, with the chunks it accumulated in full_response.
process_query(w, n, raised, final) ==
    /\ wpc[w] = "query"
    /\ queries' = [queries EXCEPT ![w] = @ + 1]
    /\ ProviderOutcome(n, raised)
    /\ caught' = [caught EXCEPT ![w] = @ \/ raised]
    /\ sent' = MessagesToSend(TextPrompt)
    /\ LET direct == output_mode = "direct_stream"
           ok == IF direct
                 THEN DirectSucceeds(n, raised, final)
                 ELSE PopupSucceeds(n, raised)
           r == IF direct THEN resets[w] ELSE resets[w] + 1
           s == IF direct THEN shows[w] ELSE shows[w] + 1
           l == IF direct THEN overlay_last[w] ELSE PopupLast(n, raised)
       IN IF ok
          THEN /\ chunks' = [chunks EXCEPT ![w] = n]
               /\ wpc' = [wpc EXCEPT ![w] = "commit_user"]
               /\ UNCHANGED <<attempt, success, result, released>>
               /\ resets' = [resets EXCEPT ![w] = r]
               /\ shows' = [shows EXCEPT ![w] = s]
               /\ overlay_last' = [overlay_last EXCEPT ![w] = l]
          ELSE /\ chunks' = [chunks EXCEPT ![w] = 0]
               /\ attempt' = [attempt EXCEPT ![w] = @ + 1]
               /\ success' = [success EXCEPT ![w] = FALSE]
               /\ wpc' = [wpc EXCEPT ![w] = LoopPc(attempt[w] + 1, FALSE)]
               /\ result' = [result EXCEPT ![w] = LoopResult(attempt[w] + 1, FALSE)]
               /\ AfterIteration(w, attempt[w] + 1, FALSE, r, s, l)
    /\ UNCHANGED <<is_processing, cb, kind, captures, sawContent>>

\* The commit of a successful attempt, first half: "if memory_enabled",
\* history_manager.add_message("user", user_text).
commit_user(w) ==
    /\ wpc[w] = "commit_user"
    /\ IF memory_enabled
       THEN /\ history' = DequeAppend(history, history_maxlen, Message("user", UserText))
            /\ addLog' = Append(addLog, Message("user", UserText))
            /\ lastOp' = "add"
       ELSE UNCHANGED <<history, addLog, lastOp>>
    /\ wpc' = [wpc EXCEPT ![w] = "commit_assistant"]
    /\ UNCHANGED <<history_maxlen, memory_max_messages, preResize, resizeCap>>
    /\ UNCHANGED <<is_processing, cb, kind, attempt, success, chunks, captures,
                   queries, sawContent, result>>
    /\ UNCHANGED ovVars

\* The commit, second half: history_manager.add_message("assistant",
\* "".join(full_response)); then the attempt returns True, "success = True;
\* attempt += 1", and the loop ends.
commit_assistant(w) ==
    /\ wpc[w] = "commit_assistant"
    /\ IF memory_enabled
       THEN /\ history' = DequeAppend(history, history_maxlen,
                                      Message("assistant", FullResponse(chunks[w])))
            /\ addLog' = Append(addLog, Message("assistant", FullResponse(chunks[w])))
            /\ lastOp' = "add"
       ELSE UNCHANGED <<history, addLog, lastOp>>
    /\ success' = [success EXCEPT ![w] = TRUE]
    /\ attempt' = [attempt EXCEPT ![w] = @ + 1]
    /\ wpc' = [wpc EXCEPT ![w] = LoopPc(attempt[w] + 1, TRUE)]
    /\ result' = [result EXCEPT ![w] = LoopResult(attempt[w] + 1, TRUE)]
    /\ AfterIteration(w, attempt[w] + 1, TRUE, resets[w], shows[w], overlay_last[w])
    /\ UNCHANGED caught
    /\ UNCHANGED <<history_maxlen, memory_max_messages, preResize, resizeCap>>
    /\ UNCHANGED <<is_processing, cb, kind, chunks, captures, queries, sawContent>>

------------------------------------------------------------------------------
(* TextCapturer (text_capturer.py) *)

\* The texts the user may have selected: none, a blank, a text, and the very
\* text the clipboard holds.
Selections == {<<>>, <<" ">>, <<"s">>, <<"o">>}

\* str.strip() yields the empty string.
IsBlank(t) == \A i \in 1..Len(t) : t[i] = " "

\* What the UI Automation part of capture_selected_text_with_rect comes to:
\* it raised, or it looked through the elements with or without finding the
\* selection.
UiaOutcomes == {"found", "not_found", "raise"}

\* TextCapturer.__init__, with nothing selected.
CaptureConstructed ==
    /\ selection = <<>>
    /\ tpc = "idle"
    /\ cap_original = NoneVal
    /\ captured_text = NoneVal
    /\ cap_result = NoneVal
    /\ ctrl_c_sent = FALSE
    /\ capture_calls = 0
    /\ clipBefore = clipboard

\* The user selects a text, or drops the selection, between two captures.
select_text(t) ==
    /\ tpc \in {"idle", "returned", "raised"}
    /\ t # selection
    /\ selection' = t
    /\ UNCHANGED <<clipboard, tpc, cap_original, captured_text, cap_result,
                   ctrl_c_sent, capture_calls, clipBefore>>

\* A mutation of UiaYields: the UI Automation result is never used.
UiaYieldsNever(uia, t) == FALSE

\* capture_selected_text_with_rect: "if selected_text" after
\* _get_selected_text_from_element, which returns the selection t of an
\* element only "if selected_text.strip()" and "" after an exception.
UiaYields(uia, t) == uia = "found" /\ ~IsBlank(t)

\* capture_selected_text_with_rect up to the fallback: _get_selected_text_from_element
\* returns a selection only if it is not blank, and then the call returns it;
\* otherwise, and when UI Automation raises, _capture_with_clipboard runs.
capture_call(uia) ==
    /\ tpc \in {"idle", "returned", "raised"}
    /\ capture_calls < MaxCaptures
    /\ capture_calls' = capture_calls + 1
    /\ clipBefore' = clipboard
    /\ ctrl_c_sent' = FALSE
    /\ cap_original' = NoneVal
    /\ captured_text' = NoneVal
    /\ IF UiaYields(uia, selection)
       THEN /\ tpc' = "returned"
            /\ cap_result' = selection
       ELSE /\ tpc' = "snapshot"
            /\ cap_result' = NoneVal
    /\ UNCHANGED <<clipboard, selection>>

\* _capture_with_clipboard: original_clipboard = pyperclip.paste().
capture_snapshot(readOk) ==
    /\ tpc = "snapshot"
    /\ IF readOk
       THEN /\ cap_original' = ClipRead(clipboard)
            /\ tpc' = "copy"
       ELSE /\ cap_original' = cap_original
            /\ tpc' = "raised"
    /\ UNCHANGED <<clipboard, selection, captured_text, cap_result, ctrl_c_sent,
                   capture_calls, clipBefore>>

\* _capture_with_clipboard: the simulated Ctrl+C; the focused application
\* puts its selection, if it has one, on the clipboard.
capture_ctrl_c ==
    /\ tpc = "copy"
    /\ ctrl_c_sent' = TRUE
    /\ clipboard' = IF selection # <<>> THEN selection ELSE clipboard
    /\ tpc' = "read"
    /\ UNCHANGED <<selection, cap_original, captured_text, cap_result, capture_calls,
                   clipBefore>>

\* _capture_with_clipboard: captured_text = pyperclip.paste().  An exception
\* leaves the function.
capture_read(readOk) ==
    /\ tpc = "read"
    /\ IF readOk
       THEN /\ captured_text' = ClipRead(clipboard)
            /\ tpc' = "restore"
       ELSE /\ captured_text' = captured_text
            /\ tpc' = "raised"
    /\ UNCHANGED <<clipboard, selection, cap_original, cap_result, ctrl_c_sent,
                   capture_calls, clipBefore>>

\* What _capture_with_clipboard returns: "" when the text read after the copy
\* is the text read before it.
CaptureResult(captured, original) == IF captured = original THEN <<>> ELSE captured

\* _capture_with_clipboard: pyperclip.copy(original_clipboard), then the
\* comparison and the return.  An exception of the copy leaves the function.
capture_restore(copyOk) ==
    /\ tpc = "restore"
    /\ IF copyOk
       THEN /\ clipboard' = cap_original
            /\ cap_result' = CaptureResult(captured_text, cap_original)
            /\ tpc' = "returned"
       ELSE /\ clipboard' = clipboard
            /\ cap_result' = cap_result
            /\ tpc' = "raised"
    /\ UNCHANGED <<selection, cap_original, captured_text, ctrl_c_sent, capture_calls,
                   clipBefore>>

------------------------------------------------------------------------------
(* LLMInterface: the model-list cache *)

\* LLMInterface.__init__: self._cache_timeout.
cache_timeout == 300

\* The steps by which the clock advances between calls.
TimeSteps == {1, 299, 300}

\* What a probe of a local server gives: a model list, an HTTP error status,
\* or no connection.
ProbeOutcomes == {"ok", "http_error", "down"}

\* get_available_models: the list built on a cache miss, from the Ollama
\* probe (with the hardcoded fallback), the LM Studio probe, and the cloud
\* models of the configured clients.
FetchModels(o, l) ==
    (IF o = "ok" THEN <<"ollama:served">>
     ELSE <<"ollama:llama3.2:latest", "ollama:llama2:latest">>)
    \o (IF l = "ok" THEN <<"lmstudio:served">> ELSE <<>>)
    \o (IF openai_client THEN <<"openai:models">> ELSE <<>>)
    \o (IF gemini_available THEN <<"gemini:models">> ELSE <<>>)

\* A mutation of CacheHit: the cache still counts as valid at the timeout.
CacheHitInclusive(t) ==
    /\ cached_models # NoneVal
    /\ models_cache_time # -1
    /\ t - models_cache_time <= cache_timeout

\* get_available_models: the test for returning the cached list at time t.
CacheHit(t) ==
    /\ cached_models # NoneVal
    /\ models_cache_time # -1
    /\ t - models_cache_time < cache_timeout

\* A mutation of ReturnsCacheObject: a hit returns the cached list itself.
ReturnsCacheOnHit(hit) == hit

\* get_available_models: whether the returned list is the object held in
\* self._cached_models.  A hit returns self._cached_models.copy(); a miss
\* stores models.copy() and returns models.
ReturnsCacheObject(hit) == FALSE

\* LLMInterface.__init__: nothing cached.
CacheConstructed ==
    /\ cached_models = NoneVal
    /\ models_cache_time = -1
    /\ now = 0
    /\ ticks = 0
    /\ models_result = NoneVal
    /\ result_is_cache = FALSE
    /\ probes = 0
    /\ cached_at = -1
    /\ refreshed = FALSE
    /\ last_call = "none"

\* get_available_models(), the two local servers answering the probes with
\* o and l.
get_available_models(o, l) ==
    LET hit == CacheHit(now)
    IN /\ hit \/ probes < MaxProbes
       /\ IF hit
          THEN /\ models_result' = cached_models
               /\ last_call' = "hit"
               /\ UNCHANGED <<cached_models, models_cache_time, probes, cached_at,
                              refreshed>>
          ELSE /\ models_result' = FetchModels(o, l)
               /\ cached_models' = FetchModels(o, l)
               /\ models_cache_time' = now
               /\ probes' = probes + 1
               /\ cached_at' = now
               /\ refreshed' = FALSE
               /\ last_call' = "miss"
       /\ result_is_cache' = ReturnsCacheObject(hit)
       /\ UNCHANGED <<now, ticks>>

\* The caller appends an entry to the list it was given.
mutate_result(x) ==
    /\ models_result # NoneVal
    /\ models_result[Len(models_result)] # x
    /\ models_result' = Append(models_result, x)
    /\ cached_models' = IF result_is_cache THEN Append(cached_models, x) ELSE cached_models
    /\ UNCHANGED <<models_cache_time, now, ticks, result_is_cache, probes,
                   cached_at, refreshed, last_call>>

\* refresh_models_cache()
refresh_models_cache ==
    /\ cached_models' = NoneVal
    /\ models_cache_time' = -1
    /\ refreshed' = TRUE
    /\ UNCHANGED <<now, ticks, models_result, result_is_cache, probes, cached_at,
                   last_call>>

\* Time passes.
tick(d) ==
    /\ ticks < MaxTicks
    /\ ticks' = ticks + 1
    /\ now' = now + d
    /\ UNCHANGED <<cached_models, models_cache_time, models_result, result_is_cache,
                   probes, cached_at, refreshed, last_call>>

------------------------------------------------------------------------------
(* ClipboardManager: the classification of the clipboard (clipboard_manager.py) *)

\* The native formats the classification asks about.
Formats == {"CF_HDROP", "CF_BITMAP", "CF_UNICODETEXT"}

\* The texts the text fallback can read: none, blank, and real text.
ClipTexts == {<<>>, <<" ">>, <<"t">>}

\* _open_clipboard_with_retries: the default of its retries parameter.
open_retries == 4

\* _open_clipboard_with_retries: the loop, entered with the number of tries
\* made so far; OpenClipboard fails for the first fails calls and succeeds
\* afterwards. The result is whether the clipboard was opened and how many
\* calls of OpenClipboard were made.
RECURSIVE OpenLoop(_, _)
OpenLoop(fails, att) ==
    IF att >= fails
    THEN [opened |-> TRUE, tries |-> att + 1]
    ELSE IF att >= open_retries
         THEN [opened |-> FALSE, tries |-> att + 1]
         ELSE OpenLoop(fails, att + 1)

\* _open_clipboard_with_retries().
open_clipboard_with_retries(fails) == OpenLoop(fails, 0)

\* The order of the format tests with the bitmap asked first.
NativeTypeBitmapFirst(present) ==
    IF "CF_BITMAP" \in present THEN "image"
    ELSE IF "CF_HDROP" \in present THEN "file"
    ELSE IF "CF_UNICODETEXT" \in present THEN "text"
    ELSE "unknown"

\* get_clipboard_content_type: the format tests made while the clipboard is
\* open.
NativeType(present) ==
    IF "CF_HDROP" \in present THEN "file"
    ELSE IF "CF_BITMAP" \in present THEN "image"
    ELSE IF "CF_UNICODETEXT" \in present THEN "text"
    ELSE "unknown"

\* get_clipboard_content_type: the pyperclip fallback; praised says that
\* pyperclip.paste() raised.
FallbackType(pasted_text, praised) ==
    IF ~praised /\ pasted_text # <<>> /\ Strip(pasted_text) # <<>>
    THEN "text"
    ELSE "unknown"

\* A ClipboardManager before any call, with an empty clipboard.
ClipboardConstructed ==
    /\ clip_formats = {}
    /\ clip_text = <<>>
    /\ clip_open = FALSE
    /\ content_type = "none"
    /\ classify_raised = FALSE
    /\ open_failures = 0
    /\ open_tries = 0
    /\ paste_raised = FALSE
    /\ classified = FALSE

\* Some application puts content on the clipboard: a set of native formats
\* and the text a text read would give. Unicode text is present exactly when
\* there is text to read.
set_clipboard(present, new_text) ==
    /\ ("CF_UNICODETEXT" \in present) <=> (new_text # <<>>)
    /\ clip_formats' = present
    /\ clip_text' = new_text
    /\ classified' = FALSE
    /\ UNCHANGED <<clip_open, content_type, classify_raised, open_failures,
                   open_tries, paste_raised>>

\* get_clipboard_content_type(): OpenClipboard fails for the first fails
\* tries; praised says that the text fallback raises when it is reached.
\* The finally clause closes the clipboard on every path that opened it.
get_clipboard_content_type(fails, praised) ==
    LET o == open_clipboard_with_retries(fails) IN
    /\ fails <= MaxOpenFailures
    /\ content_type' = IF o.opened
                       THEN NativeType(clip_formats)
                       ELSE FallbackType(clip_text, praised)
    /\ classify_raised' = FALSE
    /\ clip_open' = FALSE
    /\ open_failures' = fails
    /\ open_tries' = o.tries
    /\ paste_raised' = (~o.opened /\ praised)
    /\ classified' = TRUE
    /\ UNCHANGED <<clip_formats, clip_text>>

------------------------------------------------------------------------------
(* ConfigManager and the configuration file (config_manager.py) *)

\* The ConfigManager objects of a run; both are constructed on the same path.
ManagerIds == {"cm1", "cm2"}

\* The keys of the run: one that has a default and one that has none.
ConfigKeys == {"output_mode", "custom_key"}

\* The values set() is called with.
ConfigValues(key) ==
    IF key = "output_mode" THEN {"popup", "direct_stream"} ELSE {"custom_value"}

\* _ensure_defaults: the defaults dictionary, with the keys of the run.
defaults == [key \in {"output_mode"} |-> "popup"]

\* The empty dictionary {}.
EmptyConfig == [key \in {} |-> "None"]

\* dict[key] = value.
Put(d, key, value) == [x \in DOMAIN d \cup {key} |-> IF x = key THEN value ELSE d[x]]

\* ConfigManager.get(key, default) on the dictionary d; default is None.
Get(d, key) == IF key \in DOMAIN d THEN d[key] ELSE "None"

\* What a damaged file can hold: text that is not JSON, or bytes that are
\* not UTF-8.
BrokenKinds == {"invalid_json", "invalid_utf8"}

\* load_config: the dictionary loaded from the file. A missing file leaves
\* self.config = {}; json.load of what json.dump wrote gives the dictionary
\* back (the values are strings); JSONDecodeError is caught and gives {}.
LoadedConfig(f) == IF f.kind = "json" THEN f.data ELSE EmptyConfig

\* load_config raises: reading bytes that are not UTF-8 raises
\* UnicodeDecodeError, which "except (json.JSONDecodeError, IOError)" does
\* not catch.
LoadRaises(f) == f.kind = "invalid_utf8"

\* _ensure_defaults: the dictionary with every missing default filled in.
WithDefaults(d) ==
    [x \in DOMAIN d \cup DOMAIN defaults |-> IF x \in DOMAIN d THEN d[x] ELSE defaults[x]]

\* save_config: the file after the save of dictionary d; ok says that the
\* file could be opened for writing, and an IOError is printed and dropped.
SavedFile(f, d, ok) == IF ok THEN [kind |-> "json", data |-> d] ELSE f

\* The first run: no file, no manager.
ConfigFileInit ==
    /\ config_file = [kind |-> "missing", data |-> EmptyConfig]
    /\ managers = [cm \in ManagerIds |-> [state |-> "None", config |-> EmptyConfig]]
    /\ written = [key \in ConfigKeys |-> "None"]
    /\ file_before = [kind |-> "missing", data |-> EmptyConfig]
    /\ conf_op = [op |-> "none", cm |-> "None", key |-> "None", value |-> "None"]

\* ConfigManager(config_path): load_config, then _ensure_defaults, which
\* saves if it added a key; ok says that this save can write.
construct(cm, ok) ==
    LET loaded == LoadedConfig(config_file)
        filled == WithDefaults(loaded)
        changed == \E key \in DOMAIN defaults : key \notin DOMAIN loaded
    IN /\ file_before' = config_file
       /\ conf_op' = [op |-> "construct", cm |-> cm, key |-> "None", value |-> "None"]
       /\ IF LoadRaises(config_file)
          THEN /\ managers' = [managers EXCEPT ![cm] =
                                  [state |-> "raised", config |-> EmptyConfig]]
               /\ UNCHANGED config_file
          ELSE /\ managers' = [managers EXCEPT ![cm] =
                                  [state |-> "live", config |-> filled]]
               /\ config_file' = IF changed
                                 THEN SavedFile(config_file, filled, ok)
                                 ELSE config_file
       /\ UNCHANGED written

\* ConfigManager.set(key, value): self.config[key] = value, then save_config.
set(cm, key, value, ok) ==
    /\ managers[cm].state = "live"
    /\ managers' = [managers EXCEPT ![cm].config = Put(@, key, value)]
    /\ config_file' = SavedFile(config_file, Put(managers[cm].config, key, value), ok)
    /\ written' = [written EXCEPT ![key] = value]
    /\ conf_op' = [op |-> "set", cm |-> cm, key |-> key, value |-> value]
    /\ UNCHANGED file_before

\* The file is damaged outside the program: a write cut short, or bytes
\* replaced. What set() had stored is gone with it.
corrupt_file(broken) ==
    /\ config_file.kind # "missing"
    /\ config_file' = [kind |-> broken, data |-> EmptyConfig]
    /\ written' = [key \in ConfigKeys |-> "None"]
    /\ conf_op' = [op |-> "corrupt", cm |-> "None", key |-> "None", value |-> "None"]
    /\ UNCHANGED <<managers, file_before>>

------------------------------------------------------------------------------
(* ConversationHistory with the identity of its message objects *)
(* (history_manager.py).  A message is a dict object; the deque and the     *)
(* lists made from it hold references to the dicts.                          *)

\* What the holder of a returned list writes into its items.
HolderContents == Contents \cup {<<"x">>}

\* The numbers of the dicts add_message can create in a run.
ObjectIds == 1..MaxAdds

\* The messages the dicts numbered in refs hold now.
Deref(refs) == [i \in 1..Len(refs) |-> objects[refs[i]]]

\* list(self.history): a new list object holding the same dicts.  The list
\* is named "list"; "history" names the deque.
ListOf(dq) == "list"

\* A ConversationHistory of capacity MaxCap with no message, and no list
\* returned yet.
SnapshotInit ==
    /\ objects = <<>>
    /\ mem_refs = <<>>
    /\ mem_refs_maxlen = MaxCap
    /\ snap_list = <<>>
    /\ snap_taken = "none"
    /\ snap_expected = <<>>
    /\ mem_expected = <<>>

\* The references a returned list holds: its own, or those of the deque if
\* the list is the deque.
SnapRefs == IF snap_taken = "history" THEN mem_refs ELSE snap_list

\* ConversationHistory.add_message(role, content): a new dict is appended to
\* the deque.
snapshot_add_message(role, content) ==
    /\ Len(objects) < MaxAdds
    /\ objects' = Append(objects, Message(role, content))
    /\ mem_refs' = DequeAppend(mem_refs, mem_refs_maxlen, Len(objects) + 1)
    /\ mem_expected' = DequeAppend(mem_expected, mem_refs_maxlen, Message(role, content))
    /\ UNCHANGED <<mem_refs_maxlen, snap_list, snap_taken, snap_expected>>

\* ConversationHistory.clear().
snapshot_clear ==
    /\ mem_refs # <<>>
    /\ mem_refs' = <<>>
    /\ mem_expected' = <<>>
    /\ UNCHANGED <<objects, mem_refs_maxlen, snap_list, snap_taken, snap_expected>>

\* ConversationHistory.update_maxlen() after the setting changed to maxlen:
\* a new deque is made from list(self.history).
snapshot_update_maxlen(maxlen) ==
    /\ maxlen # mem_refs_maxlen
    /\ mem_refs' = DequeFrom(mem_refs, maxlen)
    /\ mem_refs_maxlen' = maxlen
    /\ mem_expected' = DequeFrom(mem_expected, maxlen)
    /\ UNCHANGED <<objects, snap_list, snap_taken, snap_expected>>

\* ConversationHistory.get_history(): return list(self.history).
get_history ==
    /\ snap_taken' = ListOf(mem_refs)
    /\ snap_list' = mem_refs
    /\ snap_expected' = Deref(mem_refs)
    /\ UNCHANGED <<objects, mem_refs, mem_refs_maxlen, mem_expected>>

\* The holder of the returned list removes its item i: del snapshot[i].
holder_delete(i) ==
    /\ snap_taken = "list"
    /\ i \in 1..Len(snap_list)
    /\ snap_list' = SubSeq(snap_list, 1, i - 1) \o SubSeq(snap_list, i + 1, Len(snap_list))
    /\ snap_expected' = SubSeq(snap_expected, 1, i - 1)
                            \o SubSeq(snap_expected, i + 1, Len(snap_expected))
    /\ UNCHANGED <<objects, mem_refs, mem_refs_maxlen, snap_taken, mem_expected>>

\* The holder of the returned list changes the content of its item i:
\* snapshot[i]["content"] = content.
holder_set_content(i, content) ==
    /\ snap_taken = "list"
    /\ i \in 1..Len(snap_list)
    /\ objects[snap_list[i]].content # content
    /\ objects' = [objects EXCEPT ![snap_list[i]].content = content]
    /\ snap_expected' = [snap_expected EXCEPT ![i].content = content]
    /\ UNCHANGED <<mem_refs, mem_refs_maxlen, snap_list, snap_taken, mem_expected>>

------------------------------------------------------------------------------
(* One request in direct_stream mode and what reaches the target window *)
(* (hotkey_manager.py process, _process_direct_stream; output_handler.py)   *)

\* process() of a request that has not run yet: attempt = 0, success = False.
DirectRequestInit ==
    /\ ds_pc = "idle"
    /\ ds_attempt = 0
    /\ ds_success = FALSE
    /\ ds_window = <<>>
    /\ ds_failed = {}

\* process() enters its retry loop.
ds_start ==
    /\ ds_pc = "idle"
    /\ ds_pc' = LoopPc(0, FALSE)
    /\ UNCHANGED <<ds_attempt, ds_success, ds_window, ds_failed>>
    /\ UNCHANGED histVars

\* process(): capture_selected_text_with_rect in one iteration.  No text:
\* "attempt += 1; continue"; an exception: "success = False; attempt += 1";
\* text goes on to _process_query.
ds_capture(outcome) ==
    /\ ds_pc = "capture"
    /\ IF outcome = "content"
       THEN /\ ds_pc' = "query"
            /\ UNCHANGED <<ds_attempt, ds_success, ds_failed>>
       ELSE /\ ds_attempt' = ds_attempt + 1
            /\ ds_success' = (IF outcome = "raise" THEN FALSE ELSE ds_success)
            /\ ds_pc' = LoopPc(ds_attempt + 1, ds_success')
            /\ ds_failed' = ds_failed \cup {ds_attempt}
    /\ UNCHANGED ds_window
    /\ UNCHANGED histVars

\* What a session of the handler can do with n chunks: with the status
\* COMPLETE every chunk was pasted (k = n); with ERROR or TIMEOUT any number
\* of them was, up to all of them.
SessionPastes(n, k, final) == k <= n /\ (final = "complete" => k = n)

\* _process_query -> _process_direct_stream for one attempt.  The provider
\* gives n chunks to on_chunk, each handed to stream_token, and returns or
\* raises; then the sentinel is queued and wait_for_completion returns
\* final (after a raise through handler.stop_streaming(), whose status is
\* not looked at).  k of the chunks were pasted into the window.  With
\* COMPLETE the exchange is committed if memory is enabled and the attempt
\* succeeds; every other attempt returns False.
ds_direct_stream(n, k, raised, final) ==
    /\ ds_pc = "query"
    /\ SessionPastes(n, k, final)
    /\ ds_window' = ds_window \o [i \in 1..k |-> ds_attempt]
    /\ ds_success' = DirectSucceeds(n, raised, final)
    /\ ds_attempt' = ds_attempt + 1
    /\ ds_pc' = LoopPc(ds_attempt + 1, ds_success')
    /\ ds_failed' = IF ds_success' THEN ds_failed ELSE ds_failed \cup {ds_attempt}
    /\ IF ds_success' /\ memory_enabled
       THEN /\ history' = DequeAppend(DequeAppend(history, history_maxlen,
                                                  Message("user", UserText)),
                                      history_maxlen,
                                      Message("assistant", Response(n)))
            /\ addLog' = addLog \o <<Message("user", UserText),
                                     Message("assistant", Response(n))>>
            /\ lastOp' = "add"
       ELSE UNCHANGED <<history, addLog, lastOp>>
    /\ UNCHANGED <<history_maxlen, memory_max_messages, preResize, resizeCap>>

------------------------------------------------------------------------------
(* The multimodal lookups (llm_interface.py is_multimodal,                   *)
(* config_manager.py is_multimodal_model).  A model name is written as its   *)
(* parts, so that "gemma3" holds "gemma" and "bakllava" holds "llava".       *)

\* str.lower() of one part.
LowerPart(a) ==
    CASE a = "LLaVA" -> "llava"
      [] a = "GPT-4" -> "gpt-4"
      [] OTHER -> a

\* str.lower().
Lower(t) == [i \in 1..Len(t) |-> LowerPart(t[i])]

\* "kw in t" for two strings.
Contains(t, kw) ==
    \E i \in 1..(Len(t) - Len(kw) + 1) : SubSeq(t, i, i + Len(kw) - 1) = kw

\* ":" in s.
HasColon(s) == \E i \in 1..Len(s) : s[i] = ":"

\* s.split(":", 1)[0] for a string holding a colon.
RECURSIVE BeforeFirstColon(_)
BeforeFirstColon(s) ==
    IF s = <<>> \/ Head(s) = ":" THEN <<>>
    ELSE <<Head(s)>> \o BeforeFirstColon(Tail(s))

\* The vision keywords of the two local providers.
OllamaKeywords ==
    {<<"llava">>, <<"moondream">>, <<"bak", "llava">>, <<"vision">>, <<"cogvlm">>,
     <<"llama", "-", "vision">>, <<"gemma">>}
LmstudioKeywords ==
    {<<"llava">>, <<"moondream">>, <<"vision">>, <<"bak", "llava">>, <<"gemma">>}

\* The "multimodal_models" setting of _ensure_defaults.
DefaultMultimodalModels ==
    << [key |-> <<"gemini">>, value |-> TRUE],
       [key |-> <<"gpt-4", "-", "vision">>, value |-> TRUE],
       [key |-> <<"gpt-4", "o">>, value |-> TRUE],
       [key |-> <<"claude", "-3">>, value |-> TRUE],
       [key |-> <<"llava">>, value |-> TRUE] >>

\* The values the setting is given here: the default, no entry, and lists
\* that exclude a model family.
MultimodalSettings ==
    { DefaultMultimodalModels,
      <<>>,
      << [key |-> <<"gpt-4">>, value |-> FALSE],
         [key |-> <<"gpt-4", "o">>, value |-> TRUE] >>,
      << [key |-> <<"llava">>, value |-> FALSE],
         [key |-> <<"gemini">>, value |-> TRUE] >> }

\* The legacy check of is_multimodal_model: the value of the entry whose key
\* is the lowered name, else of the first entry, in dict order, whose key
\* the lowered name holds, else False.
LegacyCheck(name, mm) ==
    LET lowered == Lower(name)
        exact == {i \in 1..Len(mm) : mm[i].key = lowered}
        held == {i \in 1..Len(mm) : Contains(lowered, mm[i].key)}
        First(S) == CHOOSE i \in S : \A j \in S : i <= j
    IN IF exact # {} THEN mm[First(exact)].value
       ELSE IF held # {} THEN mm[First(held)].value
       ELSE FALSE

\* ConfigManager.is_multimodal_model(full_model_name) with the setting mm.
is_multimodal_model(full_model_name, mm) ==
    IF HasColon(full_model_name)
    THEN LET provider == BeforeFirstColon(full_model_name)
             model_id == AfterFirstColon(full_model_name)
         IN IF provider = <<"ollama">>
            THEN \E kw \in OllamaKeywords : Contains(Lower(model_id), kw)
            ELSE IF provider = <<"lmstudio">>
            THEN \E kw \in LmstudioKeywords : Contains(Lower(model_id), kw)
            ELSE LegacyCheck(model_id, mm)
    ELSE LegacyCheck(full_model_name, mm)

\* LLMInterface.is_multimodal(): the name it looks up, the part of the
\* selected model after the first colon.
LookupName(selected) ==
    IF HasColon(selected) THEN AfterFirstColon(selected) ELSE selected

\* LLMInterface.is_multimodal() with a config manager.
llm_is_multimodal(selected, mm) == is_multimodal_model(LookupName(selected), mm)

\* The model identifiers the lookups are asked about.
LookupModels ==
    { <<"ollama", ":", "llava", ":", "latest">>, <<"ollama", ":", "llava">>,
      <<"ollama", ":", "llama3.2", ":", "latest">>, <<"ollama", ":", "llama3.2">>,
      <<"ollama", ":", "gemma", "3">>, <<"ollama", ":", "LLaVA">>,
      <<"ollama", ":", "cogvlm">>,
      <<"lmstudio", ":", "llava", ":", "7b">>, <<"lmstudio", ":", "local">>,
      <<"lmstudio", ":", "cogvlm">>,
      <<"openai", ":", "gpt-4", "o">>, <<"openai", ":", "gpt-4">>,
      <<"openai", ":", "GPT-4", "o">>,
      <<"gemini", ":", "gemini", "-pro">>, <<"gpt-4", "o">> }

\* The default setting, and no lookup made yet.
LookupInit ==
    /\ multimodal_models = DefaultMultimodalModels
    /\ llm_answer = "None"
    /\ config_answer = "None"

\* ConfigManager.set("multimodal_models", value).
set_multimodal_models(value) ==
    /\ value # multimodal_models
    /\ multimodal_models' = value
    /\ UNCHANGED <<llm_answer, config_answer>>
    /\ UNCHANGED llmVars

\* A returned bool as the observers hold it, beside "None" for no call yet.
Answer(b) == IF b THEN "True" ELSE "False"

\* LLMInterface.is_multimodal() is called, and is_multimodal_model with the
\* selected model beside it.
is_multimodal_call ==
    /\ llm_answer' = Answer(llm_is_multimodal(selected_model, multimodal_models))
    /\ config_answer' = Answer(is_multimodal_model(selected_model, multimodal_models))
    /\ UNCHANGED multimodal_models
    /\ UNCHANGED llmVars

------------------------------------------------------------------------------
(* Specifications *)

\* A configuration held fixed where the hotkey manager is not running.
ConfigDefault ==
    /\ output_mode = "popup"
    /\ enable_retry = TRUE
    /\ max_retries = MaxRetries
    /\ memory_enabled = TRUE
    /\ system_prompt = <<"p">>

\* What a step of the memory singleton leaves alone.
MemoryFrame == UNCHANGED <<baseVars, cacheVars, clipVars, confVars, snapVars, dsVars, mmVars>>

\* What a step of the model-list cache leaves alone.
CacheFrame == UNCHANGED <<baseVars, memVars, clipVars, confVars, snapVars, dsVars, mmVars>>

\* What a step of the clipboard classification leaves alone.
ClipboardFrame == UNCHANGED <<baseVars, memVars, cacheVars, confVars, snapVars, dsVars, mmVars>>

\* What a step of a ConfigManager leaves alone.
ConfigFrame == UNCHANGED <<baseVars, memVars, cacheVars, clipVars, snapVars, dsVars, mmVars>>

\* What a step of the memory and the holder of a snapshot leaves alone.
SnapshotFrame == UNCHANGED <<baseVars, memVars, cacheVars, clipVars, confVars, dsVars, mmVars>>

\* What a step of a request in direct_stream mode leaves alone, the memory
\* apart.
DirectRequestFrame ==
    UNCHANGED <<strVars, capVars, llmVars, cfgVars, hkVars, asmVars, ovVars,
                memVars, cacheVars, clipVars, confVars, snapVars, mmVars>>

\* What a step of the multimodal lookups leaves alone, LLMInterface apart.
LookupFrame ==
    UNCHANGED <<histVars, strVars, capVars, cfgVars, hkVars, asmVars, ovVars,
                memVars, cacheVars, clipVars, confVars, snapVars, dsVars>>

\* The history on its own: every capacity, no session.
InitHistory ==
    /\ HistoryInit /\ clipboard = <<"o">> /\ StreamConstructed /\ CaptureConstructed
    /\ QueryConstructed /\ selected_model = DefaultModel /\ openai_client /\ gemini_available
    /\ ConfigDefault /\ HotkeyConstructed
    /\ MemoryInit /\ CacheConstructed /\ ClipboardConstructed /\ ConfigFileInit
    /\ SnapshotInit /\ DirectRequestInit /\ LookupInit

SpecHistory == InitHistory /\ [][HistoryNext]_vars

\* One direct-paste session of a DirectStreamHandler, with its two threads,
\* the thread that owns it, a thread that may call stop(), and the user.
InitStream ==
    /\ HistoryInit /\ memory_max_messages = MaxCap /\ StreamInit /\ CaptureConstructed
    /\ QueryConstructed /\ selected_model = DefaultModel /\ openai_client /\ gemini_available
    /\ ConfigDefault /\ HotkeyConstructed
    /\ MemoryInit /\ CacheConstructed /\ ClipboardConstructed /\ ConfigFileInit
    /\ SnapshotInit /\ DirectRequestInit /\ LookupInit

StreamNext ==
    \/ (\E readOk \in BOOLEAN : start_streaming(readOk) /\ UNCHANGED <<histVars, capVars, llmVars, cfgVars, hkVars, asmVars, ovVars, extVars>>)
    \/ (\E token \in Chunks : stream_token(token) /\ UNCHANGED <<histVars, capVars, llmVars, cfgVars, hkVars, asmVars, ovVars, extVars>>)
    \/ (stream_token_none /\ UNCHANGED <<histVars, capVars, llmVars, cfgVars, hkVars, asmVars, ovVars, extVars>>)
    \/ (\E copyOk \in BOOLEAN : wait_joined(copyOk) /\ UNCHANGED <<histVars, capVars, llmVars, cfgVars, hkVars, asmVars, ovVars, extVars>>)
    \/ (wait_timeout /\ UNCHANGED <<histVars, capVars, llmVars, cfgVars, hkVars, asmVars, ovVars, extVars>>)
    \/ (\E copyOk \in BOOLEAN : timeout_return(copyOk) /\ UNCHANGED <<histVars, capVars, llmVars, cfgVars, hkVars, asmVars, ovVars, extVars>>)
    \/ (stop_call /\ UNCHANGED <<histVars, capVars, llmVars, cfgVars, hkVars, asmVars, ovVars, extVars>>)
    \/ (stop_return /\ UNCHANGED <<histVars, capVars, llmVars, cfgVars, hkVars, asmVars, ovVars, extVars>>)
    \/ (consumer_check_stop /\ UNCHANGED <<histVars, capVars, llmVars, cfgVars, hkVars, asmVars, ovVars, extVars>>)
    \/ (consumer_gate /\ UNCHANGED <<histVars, capVars, llmVars, cfgVars, hkVars, asmVars, ovVars, extVars>>)
    \/ (consumer_get /\ UNCHANGED <<histVars, capVars, llmVars, cfgVars, hkVars, asmVars, ovVars, extVars>>)
    \/ (consumer_get_empty /\ UNCHANGED <<histVars, capVars, llmVars, cfgVars, hkVars, asmVars, ovVars, extVars>>)
    \/ (\E outcome \in PasteOutcomes : paste_text(outcome) /\ UNCHANGED <<histVars, capVars, llmVars, cfgVars, hkVars, asmVars, ovVars, extVars>>)
    \/ (monitor_check_stop /\ UNCHANGED <<histVars, capVars, llmVars, cfgVars, hkVars, asmVars, ovVars, extVars>>)
    \/ (monitor_poll /\ UNCHANGED <<histVars, capVars, llmVars, cfgVars, hkVars, asmVars, ovVars, extVars>>)
    \/ (\E w \in Windows : focus_change(w) /\ UNCHANGED <<histVars, capVars, llmVars, cfgVars, hkVars, asmVars, ovVars, extVars>>)

SpecStream == InitStream /\ [][StreamNext]_vars

\* SpecStream with the scheduling of the handler's threads: a thread that can
\* take a step eventually takes it.  The owner's calls and the user's focus
\* changes are inputs and carry no fairness.
FairSpecStream ==
    /\ SpecStream
    /\ WF_vars(ConsumerNext /\ UNCHANGED <<histVars, capVars, llmVars, cfgVars, hkVars, asmVars, ovVars, extVars>>)
    /\ WF_vars(MonitorNext /\ UNCHANGED <<histVars, capVars, llmVars, cfgVars, hkVars, asmVars, ovVars, extVars>>)
    /\ WF_vars(stop_return /\ UNCHANGED <<histVars, capVars, llmVars, cfgVars, hkVars, asmVars, ovVars, extVars>>)

\* The hotkey callbacks and the worker threads they start.  The provider call
\* and the delivery of an attempt are one step with every outcome they have.
InitHotkey ==
    /\ HistoryInit /\ memory_max_messages = MaxCap
    /\ clipboard = <<"o">> /\ StreamConstructed /\ CaptureConstructed
    /\ QueryConstructed /\ selected_model \in HotkeyModels
    /\ openai_client /\ gemini_available
    /\ ConfigInit /\ HotkeyConstructed
    /\ MemoryInit /\ CacheConstructed /\ ClipboardConstructed /\ ConfigFileInit
    /\ SnapshotInit /\ DirectRequestInit /\ LookupInit

HotkeyNext ==
    \/ (\E k \in Hotkeys : on_hotkey(k) /\ UNCHANGED <<histVars, strVars, capVars, llmVars, cfgVars, asmVars, extVars>>)
    \/ (\E k \in Hotkeys : on_hotkey_return(k) /\ UNCHANGED <<histVars, strVars, capVars, llmVars, cfgVars, asmVars, extVars>>)
    \/ (\E w \in Workers : process_start(w) /\ UNCHANGED <<histVars, strVars, capVars, llmVars, cfgVars, asmVars, extVars>>)
    \/ (\E w \in Workers, o \in CaptureOutcomes :
            process_capture(w, o) /\ UNCHANGED <<histVars, strVars, capVars, llmVars, cfgVars, asmVars, extVars>>)
    \/ (\E w \in Workers, n \in 0..MaxChunks, raised \in BOOLEAN, final \in FinalStatuses :
            process_query(w, n, raised, final) /\ UNCHANGED <<histVars, strVars, capVars, llmVars, cfgVars, extVars>>)
    \/ (\E w \in Workers : commit_user(w) /\ UNCHANGED <<strVars, capVars, llmVars, cfgVars, asmVars, extVars>>)
    \/ (\E w \in Workers : commit_assistant(w) /\ UNCHANGED <<strVars, capVars, llmVars, cfgVars, asmVars, extVars>>)

SpecHotkey == InitHotkey /\ [][HotkeyNext]_vars

\* One request, from the start of its worker thread to the thread's end: no
\* further hotkey press is admitted meanwhile.
InitRequest ==
    /\ HistoryInit /\ memory_max_messages = MaxCap
    /\ clipboard = <<"o">> /\ StreamConstructed /\ CaptureConstructed
    /\ QueryConstructed /\ selected_model \in HotkeyModels
    /\ openai_client /\ gemini_available
    /\ ConfigInit
    /\ \E k \in Hotkeys : RequestStarted(k)
    /\ MemoryInit /\ CacheConstructed /\ ClipboardConstructed /\ ConfigFileInit
    /\ SnapshotInit /\ DirectRequestInit /\ LookupInit

RequestNext ==
    \/ (\E k \in Hotkeys : on_hotkey_return(k) /\ UNCHANGED <<histVars, strVars, capVars, llmVars, cfgVars, asmVars, extVars>>)
    \/ (\E w \in Workers : process_start(w) /\ UNCHANGED <<histVars, strVars, capVars, llmVars, cfgVars, asmVars, extVars>>)
    \/ (\E w \in Workers, o \in CaptureOutcomes :
            process_capture(w, o) /\ UNCHANGED <<histVars, strVars, capVars, llmVars, cfgVars, asmVars, extVars>>)
    \/ (\E w \in Workers, n \in 0..MaxChunks, raised \in BOOLEAN, final \in FinalStatuses :
            process_query(w, n, raised, final) /\ UNCHANGED <<histVars, strVars, capVars, llmVars, cfgVars, extVars>>)
    \/ (\E w \in Workers : commit_user(w) /\ UNCHANGED <<strVars, capVars, llmVars, cfgVars, asmVars, extVars>>)
    \/ (\E w \in Workers : commit_assistant(w) /\ UNCHANGED <<strVars, capVars, llmVars, cfgVars, asmVars, extVars>>)

SpecRequest == InitRequest /\ [][RequestNext]_vars

\* The request with a fair scheduler: a worker thread that can take a step
\* eventually takes one.  The capture and the provider call return or raise
\* (the provider call by the timeout of its HTTP request, the delivery by the
\* timeout of wait_for_completion).
FairSpecRequest ==
    /\ SpecRequest
    /\ WF_vars(\E w \in Workers : process_start(w) /\ UNCHANGED <<histVars, strVars, capVars, llmVars, cfgVars, asmVars, extVars>>)
    /\ WF_vars(\E w \in Workers, o \in CaptureOutcomes :
            process_capture(w, o) /\ UNCHANGED <<histVars, strVars, capVars, llmVars, cfgVars, asmVars, extVars>>)
    /\ WF_vars(\E w \in Workers, n \in 0..MaxChunks, raised \in BOOLEAN, final \in FinalStatuses :
            process_query(w, n, raised, final) /\ UNCHANGED <<histVars, strVars, capVars, llmVars, cfgVars, extVars>>)
    /\ WF_vars(\E w \in Workers : commit_user(w) /\ UNCHANGED <<strVars, capVars, llmVars, cfgVars, asmVars, extVars>>)
    /\ WF_vars(\E w \in Workers : commit_assistant(w) /\ UNCHANGED <<strVars, capVars, llmVars, cfgVars, asmVars, extVars>>)

\* Calls of capture_selected_text_with_rect by one thread, with the user
\* changing the selection between them.
InitCapture ==
    /\ HistoryInit /\ memory_max_messages = MaxCap
    /\ clipboard \in ClipContents /\ StreamConstructed /\ CaptureConstructed
    /\ QueryConstructed /\ selected_model = DefaultModel /\ openai_client /\ gemini_available
    /\ ConfigDefault /\ HotkeyConstructed
    /\ MemoryInit /\ CacheConstructed /\ ClipboardConstructed /\ ConfigFileInit
    /\ SnapshotInit /\ DirectRequestInit /\ LookupInit

CaptureStrFrame ==
    UNCHANGED <<foreground, token_queue, original_clipboard, target_window_handle,
                stop_event, pause_event, status, token_count, is_streaming, buffer,
                sentinel, cpc, mpc, opc, spc, clipAtStart, submitted, pasted,
                offTarget, timeout_errors, final_status, flushed,
                consumer_raised>>

CaptureNext ==
    \/ (\E t \in Selections : select_text(t) /\ CaptureStrFrame /\ UNCHANGED <<histVars, llmVars, cfgVars, hkVars, asmVars, ovVars, extVars>>)
    \/ (\E uia \in UiaOutcomes : capture_call(uia) /\ CaptureStrFrame /\ UNCHANGED <<histVars, llmVars, cfgVars, hkVars, asmVars, ovVars, extVars>>)
    \/ (\E readOk \in BOOLEAN : capture_snapshot(readOk) /\ CaptureStrFrame /\ UNCHANGED <<histVars, llmVars, cfgVars, hkVars, asmVars, ovVars, extVars>>)
    \/ (capture_ctrl_c /\ CaptureStrFrame /\ UNCHANGED <<histVars, llmVars, cfgVars, hkVars, asmVars, ovVars, extVars>>)
    \/ (\E readOk \in BOOLEAN : capture_read(readOk) /\ CaptureStrFrame /\ UNCHANGED <<histVars, llmVars, cfgVars, hkVars, asmVars, ovVars, extVars>>)
    \/ (\E copyOk \in BOOLEAN : capture_restore(copyOk) /\ CaptureStrFrame /\ UNCHANGED <<histVars, llmVars, cfgVars, hkVars, asmVars, ovVars, extVars>>)

SpecCapture == InitCapture /\ [][CaptureNext]_vars

\* One call of LLMInterface.query, with every selected model, every state of
\* the two cloud clients, every response stream and every failure.
InitQuery ==
    /\ HistoryInit /\ memory_max_messages = MaxCap
    /\ clipboard = <<"o">> /\ StreamConstructed /\ CaptureConstructed
    /\ QueryConstructed /\ selected_model = DefaultModel
    /\ ConfigDefault /\ HotkeyConstructed
    /\ MemoryInit /\ CacheConstructed /\ ClipboardConstructed /\ ConfigFileInit
    /\ SnapshotInit /\ DirectRequestInit /\ LookupInit

QueryNext ==
    \/ (\E m \in ModelIds : set_selected_model(m) /\ UNCHANGED <<histVars, strVars, capVars, cfgVars, hkVars, asmVars, ovVars, extVars>>)
    \/ (\E cause \in RequestFailures \cup {"none"} :
            query_call(cause) /\ UNCHANGED <<histVars, strVars, capVars, cfgVars, hkVars, asmVars, ovVars, extVars>>)
    \/ (\E item \in StreamItems("ollama") :
            query_item(item) /\ UNCHANGED <<histVars, strVars, capVars, cfgVars, hkVars, asmVars, ovVars, extVars>>)
    \/ (\E broken \in BOOLEAN : query_end(broken) /\ UNCHANGED <<histVars, strVars, capVars, cfgVars, hkVars, asmVars, ovVars, extVars>>)

SpecQuery == InitQuery /\ [][QueryNext]_vars

\* The memory singleton over the life of the application: two threads call
\* get_conversation_history with any config manager or none, add messages to
\* the instance they got, and the application quits and starts again.
InitMemory ==
    /\ HistoryInit /\ memory_max_messages = MaxCap
    /\ clipboard = <<"o">> /\ StreamConstructed /\ CaptureConstructed
    /\ QueryConstructed /\ selected_model = DefaultModel
    /\ openai_client /\ gemini_available
    /\ ConfigDefault /\ HotkeyConstructed
    /\ MemoryInit /\ CacheConstructed /\ ClipboardConstructed /\ ConfigFileInit
    /\ SnapshotInit /\ DirectRequestInit /\ LookupInit

MemoryNext ==
    \/ (\E t \in Callers, c \in ConfigManagers \cup {"None"} : get_call(t, c) /\ MemoryFrame)
    \/ (\E t \in Callers : get_create(t) /\ MemoryFrame)
    \/ (\E t \in Callers, r \in Roles, c \in Contents : memory_add(t, r, c) /\ MemoryFrame)
    \/ (save_history_on_quit /\ MemoryFrame)
    \/ (app_start /\ MemoryFrame)

SpecMemory == InitMemory /\ [][MemoryNext]_vars

\* The model-list cache of one LLMInterface: calls, refreshes and mutations
\* of the returned list, while time passes.
InitCache ==
    /\ HistoryInit /\ memory_max_messages = MaxCap
    /\ clipboard = <<"o">> /\ StreamConstructed /\ CaptureConstructed
    /\ QueryConstructed /\ selected_model = DefaultModel
    /\ ConfigDefault /\ HotkeyConstructed
    /\ MemoryInit /\ CacheConstructed /\ ClipboardConstructed /\ ConfigFileInit
    /\ SnapshotInit /\ DirectRequestInit /\ LookupInit

CacheNext ==
    \/ (\E o \in ProbeOutcomes, l \in ProbeOutcomes : get_available_models(o, l) /\ CacheFrame)
    \/ (\E x \in {"x"} : mutate_result(x) /\ CacheFrame)
    \/ (refresh_models_cache /\ CacheFrame)
    \/ (\E d \in TimeSteps : tick(d) /\ CacheFrame)

SpecCache == InitCache /\ [][CacheNext]_vars

\* The classification of the clipboard: applications put content on the
\* clipboard and get_clipboard_content_type is called, with OpenClipboard
\* failing any number of times in a row and the text fallback raising or not.
InitClipboard ==
    /\ HistoryInit /\ memory_max_messages = MaxCap
    /\ clipboard = <<"o">> /\ StreamConstructed /\ CaptureConstructed
    /\ QueryConstructed /\ selected_model = DefaultModel
    /\ ConfigDefault /\ HotkeyConstructed
    /\ MemoryInit /\ CacheConstructed /\ ClipboardConstructed /\ ConfigFileInit
    /\ SnapshotInit /\ DirectRequestInit /\ LookupInit

ClipboardNext ==
    \/ (\E present \in SUBSET Formats, t \in ClipTexts : set_clipboard(present, t) /\ ClipboardFrame)
    \/ (\E fails \in 0..MaxOpenFailures, praised \in BOOLEAN :
            get_clipboard_content_type(fails, praised) /\ ClipboardFrame)

SpecClipboard == InitClipboard /\ [][ClipboardNext]_vars

\* ConfigManagers on one path: construction, set with a save that can fail
\* to write, and damage to the file from outside.
InitConfig ==
    /\ HistoryInit /\ memory_max_messages = MaxCap
    /\ clipboard = <<"o">> /\ StreamConstructed /\ CaptureConstructed
    /\ QueryConstructed /\ selected_model = DefaultModel
    /\ ConfigDefault /\ HotkeyConstructed
    /\ MemoryInit /\ CacheConstructed /\ ClipboardConstructed /\ ConfigFileInit
    /\ SnapshotInit /\ DirectRequestInit /\ LookupInit

ConfigNext ==
    \/ (\E cm \in ManagerIds, ok \in BOOLEAN : construct(cm, ok) /\ ConfigFrame)
    \/ (\E cm \in ManagerIds, key \in ConfigKeys, ok \in BOOLEAN :
            \E value \in ConfigValues(key) : set(cm, key, value, ok) /\ ConfigFrame)
    \/ (\E broken \in BrokenKinds : corrupt_file(broken) /\ ConfigFrame)

SpecConfig == InitConfig /\ [][ConfigNext]_vars

\* The delivery of one response by a DirectStreamHandler that nobody stops:
\* the owner streams chunks and waits, the consumer buffers and flushes, the
\* join returns or times out.  The target window keeps the focus.
InitDelivery ==
    /\ HistoryInit /\ memory_max_messages = MaxCap /\ StreamInit /\ CaptureConstructed
    /\ QueryConstructed /\ selected_model = DefaultModel /\ openai_client /\ gemini_available
    /\ ConfigDefault /\ HotkeyConstructed
    /\ MemoryInit /\ CacheConstructed /\ ClipboardConstructed /\ ConfigFileInit
    /\ SnapshotInit /\ DirectRequestInit /\ LookupInit

\* What a step of the delivery leaves alone.
DeliveryFrame == UNCHANGED <<histVars, capVars, llmVars, cfgVars, hkVars, asmVars, ovVars, extVars>>

DeliveryNext ==
    \/ (\E readOk \in BOOLEAN : start_streaming(readOk) /\ DeliveryFrame)
    \/ (\E token \in DeliveryChunks : stream_token(token) /\ DeliveryFrame)
    \/ (stream_token_none /\ DeliveryFrame)
    \/ (\E copyOk \in BOOLEAN : wait_joined(copyOk) /\ DeliveryFrame)
    \/ (wait_timeout /\ DeliveryFrame)
    \/ (\E copyOk \in BOOLEAN : timeout_return(copyOk) /\ DeliveryFrame)
    \/ (consumer_check_stop /\ DeliveryFrame)
    \/ (consumer_gate /\ DeliveryFrame)
    \/ (consumer_get /\ DeliveryFrame)
    \/ (consumer_get_empty /\ DeliveryFrame)
    \/ (\E outcome \in PasteOutcomes : paste_text(outcome) /\ DeliveryFrame)
    \/ (\E atCopy \in BOOLEAN, retry \in PasteOutcomes \cup {"raised"} :
            consumer_raise(atCopy, retry) /\ DeliveryFrame)

SpecDelivery == InitDelivery /\ [][DeliveryNext]_vars

\* The memory and the holder of a list returned by get_history: messages
\* are added, the memory is cleared and resized, and the holder changes the
\* list and its items.
InitSnapshot ==
    /\ HistoryInit /\ memory_max_messages = MaxCap
    /\ clipboard = <<"o">> /\ StreamConstructed /\ CaptureConstructed
    /\ QueryConstructed /\ selected_model = DefaultModel
    /\ ConfigDefault /\ HotkeyConstructed
    /\ MemoryInit /\ CacheConstructed /\ ClipboardConstructed /\ ConfigFileInit
    /\ SnapshotInit /\ DirectRequestInit /\ LookupInit

SnapshotNext ==
    \/ (\E r \in Roles, c \in Contents : snapshot_add_message(r, c) /\ SnapshotFrame)
    \/ (snapshot_clear /\ SnapshotFrame)
    \/ (\E maxlen \in 0..MaxCap : snapshot_update_maxlen(maxlen) /\ SnapshotFrame)
    \/ (get_history /\ SnapshotFrame)
    \/ (\E i \in 1..MaxAdds : holder_delete(i) /\ SnapshotFrame)
    \/ (\E i \in 1..MaxAdds, c \in HolderContents : holder_set_content(i, c) /\ SnapshotFrame)

SpecSnapshot == InitSnapshot /\ [][SnapshotNext]_vars

\* One request in direct_stream mode: the retry loop of process() with, per
\* attempt, the capture, the provider's chunks, what the handler pasted and
\* the status it returned.
InitDirectRequest ==
    /\ HistoryInit /\ memory_max_messages = MaxCap
    /\ clipboard = <<"o">> /\ StreamConstructed /\ CaptureConstructed
    /\ QueryConstructed /\ selected_model = DefaultModel
    /\ output_mode = "direct_stream" /\ enable_retry \in BOOLEAN
    /\ max_retries \in 0..MaxRetries /\ memory_enabled \in BOOLEAN
    /\ system_prompt = <<"p">>
    /\ HotkeyConstructed
    /\ MemoryInit /\ CacheConstructed /\ ClipboardConstructed /\ ConfigFileInit
    /\ SnapshotInit /\ DirectRequestInit /\ LookupInit

DirectRequestNext ==
    \/ (ds_start /\ DirectRequestFrame)
    \/ (\E o \in {"empty", "content", "raise"} : ds_capture(o) /\ DirectRequestFrame)
    \/ (\E n \in 0..MaxChunks, k \in 0..MaxChunks, raised \in BOOLEAN,
           final \in FinalStatuses :
            ds_direct_stream(n, k, raised, final) /\ DirectRequestFrame)

SpecDirectRequest == InitDirectRequest /\ [][DirectRequestNext]_vars

\* What the memory can hold when a request starts: nothing, or the exchange
\* an earlier request committed.
StoredHistories ==
    {<<>>, <<Message("user", UserText), Message("assistant", Response(1))>>}

\* One request, with the memory as earlier requests left it and the user
\* switching memory on and off in the tray menu while it runs.
InitSwitch ==
    /\ memory_max_messages = MaxCap /\ history_maxlen = MaxCap
    /\ history \in StoredHistories /\ addLog = history
    /\ preResize = <<>> /\ lastOp = "init" /\ resizeCap = -1
    /\ clipboard = <<"o">> /\ StreamConstructed /\ CaptureConstructed
    /\ QueryConstructed /\ selected_model \in HotkeyModels
    /\ openai_client /\ gemini_available
    /\ ConfigInit
    /\ \E k \in Hotkeys : RequestStarted(k)
    /\ MemoryInit /\ CacheConstructed /\ ClipboardConstructed /\ ConfigFileInit
    /\ SnapshotInit /\ DirectRequestInit /\ LookupInit

\* The setting is read once per commit (hotkey_manager.py 651, 705), before
\* the two add_message calls: a switch made between them takes effect after
\* them, so it is taken here when no worker is between the two calls.
SwitchNext ==
    \/ (\E k \in Hotkeys : on_hotkey_return(k) /\ UNCHANGED <<histVars, strVars, capVars, llmVars, cfgVars, asmVars, extVars>>)
    \/ (\E w \in Workers : process_start(w) /\ UNCHANGED <<histVars, strVars, capVars, llmVars, cfgVars, asmVars, extVars>>)
    \/ (\E w \in Workers, o \in CaptureOutcomes :
            process_capture(w, o) /\ UNCHANGED <<histVars, strVars, capVars, llmVars, cfgVars, asmVars, extVars>>)
    \/ (\E w \in Workers, n \in 0..MaxChunks, raised \in BOOLEAN, final \in FinalStatuses :
            process_query(w, n, raised, final) /\ UNCHANGED <<histVars, strVars, capVars, llmVars, cfgVars, extVars>>)
    \/ (\E w \in Workers : commit_user(w) /\ UNCHANGED <<strVars, capVars, llmVars, cfgVars, asmVars, extVars>>)
    \/ (\E w \in Workers : commit_assistant(w) /\ UNCHANGED <<strVars, capVars, llmVars, cfgVars, asmVars, extVars>>)
    \/ (toggle_memory /\ (\A w \in Workers : wpc[w] # "commit_assistant")
            /\ UNCHANGED <<histVars, strVars, capVars, llmVars, hkVars, asmVars, ovVars, extVars>>)

SpecSwitch == InitSwitch /\ [][SwitchNext]_vars

\* The multimodal lookups: models are selected, the setting is changed, and
\* the two lookups are made for the selected model.
InitLookup ==
    /\ HistoryInit /\ memory_max_messages = MaxCap
    /\ clipboard = <<"o">> /\ StreamConstructed /\ CaptureConstructed
    /\ QueryConstructed /\ selected_model = DefaultModel
    /\ ConfigDefault /\ HotkeyConstructed
    /\ MemoryInit /\ CacheConstructed /\ ClipboardConstructed /\ ConfigFileInit
    /\ SnapshotInit /\ DirectRequestInit /\ LookupInit

LookupNext ==
    \/ (\E m \in LookupModels : set_selected_model(m) /\ UNCHANGED mmVars /\ LookupFrame)
    \/ (\E value \in MultimodalSettings : set_multimodal_models(value) /\ LookupFrame)
    \/ (is_multimodal_call /\ LookupFrame)

SpecLookup == InitLookup /\ [][LookupNext]_vars

\* The assembly of the message list, with the memory filled and cleared, the
\* memory switch toggled and the system prompt edited between requests.
InitAssemble ==
    /\ HistoryInit /\ memory_max_messages = MaxCap
    /\ clipboard = <<"o">> /\ StreamConstructed /\ CaptureConstructed
    /\ QueryConstructed /\ selected_model = DefaultModel
    /\ openai_client /\ gemini_available
    /\ output_mode = "popup" /\ enable_retry = TRUE /\ max_retries = MaxRetries
    /\ memory_enabled = TRUE
    /\ system_prompt \in SystemPromptTexts
    /\ HotkeyConstructed
    /\ MemoryInit /\ CacheConstructed /\ ClipboardConstructed /\ ConfigFileInit
    /\ SnapshotInit /\ DirectRequestInit /\ LookupInit

AssembleNext ==
    \/ (\E r \in Roles, c \in Contents : AddMessage(r, c) /\ UNCHANGED <<strVars, capVars, llmVars, cfgVars, hkVars, asmVars, ovVars, extVars>>)
    \/ (ClearHistory /\ UNCHANGED <<strVars, capVars, llmVars, cfgVars, hkVars, asmVars, ovVars, extVars>>)
    \/ (toggle_memory /\ UNCHANGED <<histVars, strVars, capVars, llmVars, hkVars, asmVars, ovVars, extVars>>)
    \/ (\E t \in SystemPromptTexts : save_system_prompt(t) /\ UNCHANGED <<histVars, strVars, capVars, llmVars, hkVars, asmVars, ovVars, extVars>>)
    \/ (\E p \in Prompts : assemble_messages(p) /\ UNCHANGED <<histVars, strVars, capVars, llmVars, cfgVars, hkVars, ovVars, extVars>>)

SpecAssemble == InitAssemble /\ [][AssembleNext]_vars

------------------------------------------------------------------------------
(* Claims about ConversationHistory, checked under SpecHistory *)

\* C6 (memory bound): after N add_message calls on a history whose capacity C
\* was never reconfigured, get_history() has length min(N, C) and holds
\* exactly the last min(N, C) added messages in their original order.
C6_MemoryBound ==
    resizeCap = -1 =>
        /\ Len(GetHistory) = Min(Len(addLog), history_maxlen)
        /\ GetHistory = LastN(addLog, Min(Len(addLog), history_maxlen))

\* C6 witness: more messages were added than the capacity holds, so the
\* oldest ones were evicted.
C6_Witness ==
    /\ resizeCap = -1
    /\ lastOp = "add"
    /\ history_maxlen >= 2
    /\ Len(addLog) > history_maxlen
    /\ Len(history) = history_maxlen

\* C7 (resize preserves recency): right after update_maxlen() the snapshot is
\* the last min(C2, length) entries of the snapshot taken before it, in the
\* same order, and from then on the history never holds more than C2 entries.
C7_ResizePreservesRecency ==
    /\ lastOp = "update_maxlen" =>
            GetHistory = LastN(preResize, Min(resizeCap, Len(preResize)))
    /\ resizeCap # -1 => history_maxlen = resizeCap /\ Len(GetHistory) <= resizeCap

\* C7 witness: a resize to a smaller, non-zero capacity cut entries off.
C7_Witness ==
    /\ lastOp = "update_maxlen"
    /\ resizeCap >= 1
    /\ Len(preResize) > resizeCap
    /\ Len(history) = resizeCap

------------------------------------------------------------------------------
(* Claims about DirectStreamHandler, checked under SpecStream *)

\* C2 (clipboard restoration): when a session that nobody cancelled has ended
\* through wait_for_completion and its consumer thread, the only thread of the
\* session that writes the clipboard, no longer runs, the clipboard holds
\* exactly what it held immediately before start_streaming.
C2_ClipboardRestored ==
    (opc = "returned" /\ cpc = "done" /\ spc = "idle") => clipboard = clipAtStart

\* C3 (chunk ordering without loss): in a session that nobody cancelled, the
\* text pasted so far is always a prefix of the concatenation of the submitted
\* chunks, and it is the whole concatenation when the session has ended with
\* status COMPLETE.
C3_ChunkOrdering ==
    spc = "idle" =>
        /\ IsPrefix(pasted, submitted)
        /\ (opc = "returned" /\ status = "complete") => pasted = submitted

\* C8 (focus gating): no paste is ever performed while the foreground window
\* differs from the target window recorded at start_streaming.
C8_FocusGating == ~offTarget

\* C9 (restoration on cancellation): when stop() has cancelled a session that
\* was still delivering chunks, has returned and both threads have exited, the
\* clipboard holds the content that was snapshotted at start_streaming.
C9_RestoredOnCancel ==
    (/\ spc = "returned" /\ opc = "streaming"
     /\ cpc = "done" /\ mpc = "done"
     /\ original_clipboard = clipAtStart)
        => clipboard = clipAtStart

C11_ThreadsEndAfterComplete ==
    (opc = "returned" /\ status = "complete") ~> (cpc = "done" /\ mpc = "done")

\* C12 (timeout): when the join of wait_for_completion has timed out, the
\* stop flag is set and on_error was called exactly once with error type
\* 'timeout', and the status wait_for_completion then returns is TIMEOUT.
C12_Timeout ==
    (opc = "joining" \/ (opc = "returned" /\ timeout_errors > 0)) =>
        /\ stop_event
        /\ timeout_errors = 1
        /\ opc = "returned" => final_status = "timeout"

------------------------------------------------------------------------------
(* Claims about TextCapturer, checked under SpecCapture *)

\* C13 (capture fallback restoration): when _capture_with_clipboard has been
\* left, by return or by exception, after it snapshotted the clipboard, the
\* clipboard reads as the snapshot again.
C13_FallbackRestores ==
    (tpc \in {"returned", "raised"} /\ cap_original # NoneVal) =>
        ClipRead(clipboard) = cap_original

\* C32 (capture fallback result): when _capture_with_clipboard has returned,
\* the clipboard holds the content it held before the call, and the returned
\* text is empty exactly when the text read after the simulated copy equals
\* the text read before it, and is the text read after the copy otherwise.
C32_FallbackResult ==
    (tpc = "returned" /\ ctrl_c_sent) =>
        /\ clipboard = clipBefore
        /\ (cap_result = <<>>) <=> (captured_text = cap_original)
        /\ cap_result # <<>> => cap_result = captured_text

\* C33 (non-destructive capture first): a call in which UI Automation
\* yields a selection that is not blank returns that selection, leaves the
\* clipboard as it is and sends no keystroke; in every other call, and in no
\* call of the first kind, _capture_with_clipboard runs.
C33_NonDestructiveFirst ==
    /\ []((tpc = "returned" /\ ~ctrl_c_sent) =>
             /\ clipboard = clipBefore
             /\ cap_result # NoneVal /\ ~IsBlank(cap_result))
    /\ [][\A uia \in UiaOutcomes :
            capture_call(uia) =>
                IF uia = "found" /\ ~IsBlank(selection)
                THEN /\ tpc' = "returned" /\ cap_result' = selection
                     /\ clipboard' = clipboard /\ ~ctrl_c_sent'
                ELSE tpc' = "snapshot"]_vars

\* C33's case: a call returned the selection found by UI Automation while
\* the clipboard held something else, and no Ctrl+C was sent.
C33_Witness ==
    /\ tpc = "returned" /\ ~ctrl_c_sent
    /\ cap_result = <<"s">>
    /\ clipboard = ImageContent
    /\ capture_calls = 1

------------------------------------------------------------------------------
(* Claims about LLMInterface, checked under SpecQuery *)

\* C14 (provider failure translation): when query() has ended after a
\* transport, authentication or configuration failure of the provider, it has
\* raised LLMConnectionError, LLMAuthError or LLMConfigError, and no error
\* message was handed to on_chunk as response text.
C14_FailuresAreRaised ==
    (/\ qpc \in {"returned", "raised"}
     /\ failure \in RequestFailures \cup {"config", "stream_broken"}) =>
        /\ qpc = "raised"
        /\ query_raised \in {"LLMConnectionError", "LLMAuthError", "LLMConfigError"}
        /\ \A i \in 1..Len(on_chunk_log) : ~IsErrorText(on_chunk_log[i])

\* C15 (provider dispatch): once query() has dispatched, it has called exactly
\* one backend, the one whose tag and colon begin the selected model id, with
\* the rest of the id after that first colon as model name; for an id that
\* begins with no such tag it has called no backend, has raised nothing and
\* has returned after one on_chunk call with the synthetic error text.
C15_Dispatch ==
    qpc # "idle" =>
        IF \E b \in {"ollama", "openai", "gemini", "lmstudio"} :
                StartsWith(selected_model, <<b, ":">>)
        THEN /\ backend_calls = 1
             /\ selected_model = <<backend, ":">> \o model_name
        ELSE /\ backend_calls = 0
             /\ backend = "none"
             /\ qpc = "returned"
             /\ query_raised = "none"
             /\ on_chunk_log = <<UnsupportedText>>

\* C15 witness: a model name that itself holds a colon was passed to Ollama.
C15_Witness ==
    /\ qpc # "idle"
    /\ backend = "ollama"
    /\ backend_calls = 1
    /\ model_name = <<"llama3.2", ":", "latest">>

\* C17 (streaming callback): during a query of Ollama, on_chunk has been
\* called with exactly the non-empty fragments read so far, once each and in
\* their order, and no empty fragment or malformed line has ended the stream.
C17_StreamingCallback ==
    backend = "ollama" =>
        /\ on_chunk_log = emitted
        /\ \A i \in 1..Len(on_chunk_log) : on_chunk_log[i] # <<>>
        /\ failure # "malformed"

\* C18 (Ollama error mapping): when the request of query_ollama has failed to
\* connect, has timed out or was answered with an HTTP error status, the
\* query has raised LLMAuthError for status 401 and LLMConnectionError
\* otherwise, and on_chunk was never called.
C18_OllamaErrorMapping ==
    (backend = "ollama" /\ failure \in RequestFailures) =>
        /\ qpc = "raised"
        /\ query_raised = (IF failure = "http_401" THEN "LLMAuthError"
                           ELSE "LLMConnectionError")
        /\ on_chunk_log = <<>>

\* C18 witness: Ollama answered 401 and LLMAuthError was raised.
C18_Witness ==
    /\ backend = "ollama"
    /\ failure = "http_401"
    /\ qpc = "raised"
    /\ query_raised = "LLMAuthError"

------------------------------------------------------------------------------
(* Claims about HotkeyManager, checked under SpecHotkey *)

\* C1 (single-flight admission): while a worker thread started by a hotkey
\* callback is still running, no second worker is started, so at most one
\* worker is active at any time.
C1_SingleFlight == Cardinality(ActiveWorkers) <= 1

\* C4 (retry exhaustion): a process() worker whose captures all came back
\* empty never calls the provider, never captures more than max_retries + 1
\* times, and ends having captured exactly max_retries + 1 times with the
\* request reported as failed.
C4_RetryExhaustion ==
    \A w \in Workers :
        (kind[w] = "selection" /\ ~sawContent[w]) =>
            /\ queries[w] = 0
            /\ captures[w] <= max_retries + 1
            /\ wpc[w] = "done" =>
                    /\ captures[w] = max_retries + 1
                    /\ result[w] = "failed"

\* C4 witness: with at least two retries configured, a process() worker ran
\* out of attempts on empty captures alone.
C4_Witness ==
    \E w \in Workers :
        /\ kind[w] = "selection"
        /\ ~sawContent[w]
        /\ wpc[w] = "done"
        /\ max_retries >= 2
        /\ captures[w] = max_retries + 1
        /\ result[w] = "failed"

\* C5 (commit condition): an attempt reaches the commit, and is reported
\* successful, only if at least one chunk was received.
C5_CommitCondition ==
    \A w \in Workers :
        (wpc[w] \in {"commit_user", "commit_assistant"} \/ success[w]) =>
            chunks[w] >= 1

\* C16 (unsupported provider is terminal): with a selected model id whose
\* provider tag query() does not know, a worker calls the provider at most
\* once, never reaches the commit, is never reported as successful, ends as a
\* failed request, and nothing is appended to the conversation memory.
C16_UnsupportedTerminal ==
    Dispatch(selected_model) = "none" =>
        /\ addLog = <<>>
        /\ \A w \in Workers :
              queries[w] >= 1 =>
                  /\ queries[w] = 1
                  /\ wpc[w] \notin {"commit_user", "commit_assistant"}
                  /\ ~success[w]
                  /\ wpc[w] = "done" /\ result[w] = "failed"

\* The shape of a message list: a system message first iff the system prompt
\* is not blank, then the messages of mid in their order, then one user
\* message as the last element.
AssembledAs(msgs, mid) ==
    LET blank == \A i \in 1..Len(system_prompt) : system_prompt[i] = " "
        k == IF blank THEN 0 ELSE 1
    IN /\ Len(msgs) = k + Len(mid) + 1
       /\ msgs[1].role = "system" <=> ~blank
       /\ \A i \in 1..Len(mid) : msgs[k + i] = mid[i]
       /\ msgs[Len(msgs)].role = "user"

\* C19 (message assembly), amended: the list built for an attempt is the
\* system prompt message (present iff the system prompt is not blank), then
\* the memory snapshot in insertion order if "memory_enabled" is set and
\* nothing otherwise, then the new user message as the last element.
C19_MessageAssembly ==
    [][\A p \in Prompts :
          assemble_messages(p) =>
              AssembledAs(sent', IF memory_enabled THEN history ELSE <<>>)]_vars

\* C19 witness: a list was built from a system prompt, a memory of two
\* different messages and a user message.
C19_Witness ==
    /\ memory_enabled
    /\ Len(history) = 2 /\ history[1] # history[2]
    /\ sent = <<Message("system", <<"p">>)>> \o history \o <<Message("user", <<"q">>)>>

\* C19 as stated: the memory snapshot is part of the list of every attempt.
C19_AsStated ==
    [][\A p \in Prompts :
          assemble_messages(p) => AssembledAs(sent', history)]_vars

\* C20 (commit ordering): the messages appended to the conversation memory
\* come in pairs, a user message immediately followed by the assistant
\* message of the same exchange; between the two appends of a commit the
\* memory ends with that commit's user message.
C20_CommitOrdering ==
    /\ \A i \in 1..Len(addLog) :
          addLog[i].role = (IF i % 2 = 1 THEN "user" ELSE "assistant")
    /\ \A w \in Workers :
          (wpc[w] = "commit_assistant" /\ memory_enabled) =>
              /\ Len(addLog) % 2 = 1
              /\ \A v \in Workers \ {w} : wpc[v] # "commit_assistant"

------------------------------------------------------------------------------
(* Claims about the memory singleton, checked under SpecMemory *)

\* C23 (memory persistence round trip): once the application has quit,
\* durable storage holds the memory snapshot taken at the quit, and after the
\* next start the memory, before anything is added to it, holds exactly that
\* sequence of messages.
C23_PersistenceRoundTrip ==
    /\ app = "stopped" => storage = quit_snapshot
    /\ (restarts > 0 /\ conversation_history # "None" /\ mem_adds = 0) =>
           inst_history[conversation_history] = quit_snapshot

\* C24 (memory singleton): no second instance is ever created, every call
\* returned the instance the module global holds, and that instance has the
\* capacity of the config manager it is bound to.
C24_Singleton ==
    /\ Cardinality(instances) <= 1
    /\ \A t \in Callers :
          returned[t] # "None" => returned[t] = conversation_history
    /\ conversation_history # "None" =>
          /\ inst_maxlen[conversation_history] = MaxlenFor(inst_config[conversation_history])
          /\ Len(inst_history[conversation_history]) <= inst_maxlen[conversation_history]

------------------------------------------------------------------------------
(* Claims about the model-list cache, checked under SpecCache *)

\* C25 (model-list cache): a call made while the cache is filled, not
\* refreshed since, and younger than 300 seconds returns the cached list
\* without a probe; any other call probes the servers and returns and caches
\* what it found; the list handed out is never the cache's own object, and a
\* caller appending to it leaves the cache as it was.
C25_ModelListCache ==
    [][/\ \A o \in ProbeOutcomes, l \in ProbeOutcomes :
            get_available_models(o, l) =>
                /\ ~result_is_cache'
                /\ IF cached_at >= 0 /\ ~refreshed /\ now - cached_at < 300
                   THEN /\ probes' = probes
                        /\ models_result' = cached_models
                        /\ cached_models' = cached_models
                   ELSE /\ probes' = probes + 1
                        /\ models_result' = FetchModels(o, l)
                        /\ cached_models' = FetchModels(o, l)
       /\ \A x \in {"x"} : mutate_result(x) => cached_models' = cached_models]_vars

\* C25 witness: a call 299 seconds after the only probe returned the cached
\* list, and the caller has appended to what it was given.
C25_Witness ==
    /\ last_call = "hit" /\ probes = 1
    /\ now - cached_at = 299
    /\ models_result = Append(cached_models, "x")

------------------------------------------------------------------------------
(* Claims about the clipboard classification, checked under SpecClipboard *)

\* C28 (clipboard classification): a call of get_clipboard_content_type
\* returns and does not raise; when the native clipboard opened within the
\* first try and the retries it returns FILE if a file-drop list is present,
\* else IMAGE if a bitmap is present, else TEXT if Unicode text is present,
\* else UNKNOWN; when every try failed it returns TEXT iff the text fallback
\* gave text that is not blank, and UNKNOWN otherwise.
C28_ClipboardClassification ==
    classified =>
        /\ ~classify_raised
        /\ content_type \in {"file", "image", "text", "unknown"}
        /\ IF open_failures <= open_retries
           THEN /\ open_tries = open_failures + 1
                /\ ("CF_HDROP" \in clip_formats) => content_type = "file"
                /\ ("CF_HDROP" \notin clip_formats /\ "CF_BITMAP" \in clip_formats)
                       => content_type = "image"
                /\ (clip_formats = {"CF_UNICODETEXT"}) => content_type = "text"
                /\ (clip_formats = {}) => content_type = "unknown"
           ELSE /\ open_tries = open_retries + 1
                /\ content_type = "text" <=> (~paste_raised /\ ~IsBlank(clip_text))
                /\ content_type # "text" => content_type = "unknown"

\* C28's case: every try to open the clipboard failed while it held a
\* file-drop list and text, and the fallback answered TEXT.
C28_Witness ==
    /\ classified
    /\ open_failures = open_retries + 1 /\ open_tries = open_retries + 1
    /\ clip_formats = {"CF_HDROP", "CF_UNICODETEXT"}
    /\ clip_text = <<"t">>
    /\ content_type = "text"

------------------------------------------------------------------------------
(* Claims about the configuration, checked under SpecConfig *)

\* C29 (configuration persistence): after set(k, v) the same manager's get(k)
\* is v, and a manager constructed afterwards on the same path is constructed
\* and returns for every key the value last written with set; a constructor
\* leaves every key it found in the file with the value stored there; and a
\* constructor that finds a corrupted file is constructed and returns every
\* default value.
C29_ConfigPersistence ==
    /\ conf_op.op = "set" =>
          Get(managers[conf_op.cm].config, conf_op.key) = conf_op.value
    /\ conf_op.op = "construct" =>
          /\ managers[conf_op.cm].state = "live"
          /\ \A key \in ConfigKeys :
                written[key] # "None" =>
                    Get(managers[conf_op.cm].config, key) = written[key]
          /\ file_before.kind = "json" =>
                \A key \in DOMAIN file_before.data :
                    Get(managers[conf_op.cm].config, key) = file_before.data[key]
          /\ file_before.kind \in BrokenKinds =>
                \A key \in DOMAIN defaults :
                    Get(managers[conf_op.cm].config, key) = defaults[key]

------------------------------------------------------------------------------
(* Claims about one request, checked under SpecRequest and FairSpecRequest *)

\* C21 (failure visibility): a worker whose attempts all failed has the
\* failure message as its last overlay append if and only if the output mode
\* is popup, the failure message is appended only for a failed request, and
\* in direct_stream mode the worker emits no reset, show or append signal.
C21_FailureVisibility ==
    \A w \in Workers :
        /\ (wpc[w] = "done" /\ result[w] = "failed") =>
               (overlay_last[w] = "final" <=> output_mode = "popup")
        /\ overlay_last[w] = "final" => result[w] = "failed"
        /\ output_mode = "direct_stream" =>
               resets[w] = 0 /\ shows[w] = 0 /\ overlay_last[w] = "none"

\* C21 witness: in popup mode a request that called the provider and failed
\* in every attempt ended with the failure message on the overlay.
C21_Witness ==
    \E w \in Workers :
        /\ output_mode = "popup"
        /\ wpc[w] = "done" /\ result[w] = "failed"
        /\ queries[w] >= 1 /\ captures[w] = max_retries + 1
        /\ overlay_last[w] = "final"

\* C22 (overlay reset): in popup mode a worker emits the reset signal at most
\* once, has emitted it once when it has appended anything, and has emitted
\* it exactly once when the request has ended.
C22_ResetOnce ==
    output_mode = "popup" =>
        \A w \in Workers :
            /\ resets[w] <= 1
            /\ overlay_last[w] # "none" => resets[w] = 1
            /\ wpc[w] = "done" => resets[w] = 1

\* C26 (retry only if enabled): with enable_retry false a worker makes no
\* more than one attempt, whatever max_retries is.
C26_RetryOnlyIfEnabled ==
    ~enable_retry =>
        \A w \in Workers : captures[w] <= 1 /\ queries[w] <= 1 /\ attempt[w] <= 1

\* C27 (failure containment): a worker that has ended, whatever its capture,
\* extraction, provider call or delivery raised, has run the retry loop to
\* its end and released the keys, and every started worker gets there.
C27_FailureContainment ==
    /\ [](\A w \in Workers :
            /\ wpc[w] = "done" => released[w] /\ result[w] \in {"succeeded", "failed"}
            /\ released[w] => wpc[w] = "done")
    /\ \A w \in Workers : (wpc[w] = "start") ~> (wpc[w] = "done" /\ released[w])

\* C27 witness: a worker whose except clauses caught an exception, of the
\* capture and of the provider call, has ended with the keys released.
C27_Witness ==
    \E w \in Workers :
        /\ caught[w] /\ queries[w] >= 1 /\ captures[w] > queries[w]
        /\ result[w] = "failed"
        /\ wpc[w] = "done" /\ released[w]

\* C30 (bounded retry loop): the attempt counter equals the number of loop
\* iterations completed, a worker starts no more than max_retries + 1
\* iterations and none after a success, and every started worker ends.
C30_BoundedRetryLoop ==
    /\ [](\A w \in Workers :
            /\ attempt[w] = (IF wpc[w] \in {"query", "commit_user", "commit_assistant"}
                             THEN captures[w] - 1 ELSE captures[w])
            /\ captures[w] <= max_retries + 1
            /\ success[w] => wpc[w] = "done" /\ result[w] = "succeeded")
    /\ \A w \in Workers : (wpc[w] = "start") ~> (wpc[w] = "done")

\* C30 witness: a worker succeeded in its last permitted attempt after two
\* failed ones, one of them a failed provider call.
C30_Witness ==
    \E w \in Workers :
        /\ max_retries = 2
        /\ wpc[w] = "done" /\ success[w]
        /\ attempt[w] = 3 /\ captures[w] = 3 /\ queries[w] = 2

\* The causes of failure of an attempt that reached the provider: the call
\* raised, no chunk came in popup mode, or the delivery of direct_stream mode
\* ended with a status other than COMPLETE.
C31_FailureCause(n, raised, final) ==
    \/ raised
    \/ output_mode = "popup" /\ n = 0
    \/ output_mode = "direct_stream" /\ final # "complete"

\* C31 (failed attempts leave memory untouched): an attempt with an empty or
\* failed capture, and an attempt whose provider call raised, whose delivery
\* ended with a status other than COMPLETE or that got no chunk in popup
\* mode, leaves the memory as it was and does not go on to the commit; a
\* request whose attempts all failed has made no add_message call.
C31_FailedAttemptsLeaveMemory ==
    /\ [](\A w \in Workers : result[w] = "failed" => addLog = <<>> /\ history = <<>>)
    /\ [][/\ \A w \in Workers, n \in 0..MaxChunks, raised \in BOOLEAN, final \in FinalStatuses :
              (process_query(w, n, raised, final) /\ C31_FailureCause(n, raised, final))
                  => /\ history' = history /\ addLog' = addLog
                     /\ wpc'[w] \in {"capture", "done"}
                     /\ ~success'[w]
          /\ \A w \in Workers, o \in CaptureOutcomes \ {"content"} :
              process_capture(w, o)
                  => /\ history' = history /\ addLog' = addLog
                     /\ wpc'[w] \in {"capture", "done"}]_vars

\* C31's case: in direct_stream mode every attempt reached the provider and
\* failed, and the memory holds nothing.
C31_Witness ==
    \E w \in Workers :
        /\ output_mode = "direct_stream"
        /\ result[w] = "failed"
        /\ queries[w] = max_retries + 1
        /\ max_retries >= 1
        /\ addLog = <<>>

------------------------------------------------------------------------------
(* Claims about one delivery, checked under SpecDelivery *)

\* A step under the flush policy with a given set of boundary characters:
\* the consumer that takes a chunk from the queue adds it to the buffer and
\* flushes the buffer exactly when it has reached buffer_size_limit
\* characters or the chunk ends with a boundary character; a flush hands the
\* whole buffer to _paste_text; buffered text is flushed when the queue
\* stays empty and when the sentinel is taken.
C34_Step(boundary) ==
          /\ (consumer_get /\ Head(token_queue) # NoneVal) =>
               LET token == Head(token_queue) IN
               /\ buffer' = buffer \o token
               /\ flushed' = flushed
               /\ cpc' = IF \/ TextLen(buffer \o token) >= buffer_size_limit
                            \/ token[Len(token)] \in boundary
                         THEN "paste" ELSE "loop"
          /\ (consumer_get /\ Head(token_queue) = NoneVal) =>
               cpc' = IF buffer # <<>> THEN "paste" ELSE "done"
          /\ (consumer_get_empty /\ buffer # <<>>) => cpc' = "paste"
          /\ \A outcome \in PasteOutcomes :
               paste_text(outcome) =>
                   /\ flushed' = flushed \o buffer
                   /\ ~sentinel => buffer' = <<>>

------------------------------------------------------------------------------
(* Claims about a returned history list, checked under SpecSnapshot *)

\* C35: the list returned by get_history() is a snapshot: later add_message,
\* clear and update_maxlen calls do not change a list returned earlier (it
\* holds the messages its holder left in it), and the changes its holder
\* makes to it do not change the messages held in memory (the memory holds
\* the messages its own calls left in it).
C35_SnapshotIsolation ==
    /\ snap_taken # "none" => Deref(SnapRefs) = snap_expected
    /\ Deref(mem_refs) = mem_expected

\* The half of C35 that the code keeps: calls on the memory do not change a
\* list returned earlier.
C35_ListUnchangedByMemory ==
    snap_taken # "none" => Deref(SnapRefs) = snap_expected

\* Removing items from the returned list leaves the memory as it was.
C35_ListLevelChangeIsolated ==
    [][(\E i \in 1..MaxAdds : holder_delete(i)) => Deref(mem_refs)' = Deref(mem_refs)]_vars

\* C36: COMPLETE means clean delivery.  wait_for_completion returns COMPLETE
\* only if every flush of the session pasted its text (none hit a clipboard
\* or keyboard-simulation error), the consumer caught no exception and the
\* join did not time out; and a status that is ERROR never becomes COMPLETE.
C36_CompleteMeansClean ==
    /\ []((opc = "returned" /\ final_status = "complete")
            => /\ flushed = pasted
               /\ ~consumer_raised
               /\ timeout_errors = 0
               /\ status = "complete")
    /\ [][status = "error" => status' \in {"error", "timeout"}]_vars

\* Two chunks were delivered without an error and the session returned
\* COMPLETE.
C36_Witness ==
    /\ opc = "returned" /\ final_status = "complete"
    /\ token_count = 2 /\ pasted = submitted /\ flushed = pasted
    /\ ~consumer_raised /\ timeout_errors = 0

\* The other side of C36: sessions with a failed flush or a consumer
\* exception return ERROR.
C36_ErrorReturned ==
    (opc = "returned" /\ timeout_errors = 0 /\ (flushed # pasted \/ consumer_raised))
        => final_status = "error"

------------------------------------------------------------------------------
(* Claims about one request in direct_stream mode, checked under             *)
(* SpecDirectRequest                                                         *)

\* C37: no duplicated output across retries.  The text pasted into the target
\* window during one request comes from at most one attempt, and no attempt
\* that ended in failure has pasted anything.
C37_NoDuplicatedOutput ==
    /\ \A i, j \in DOMAIN ds_window : ds_window[i] = ds_window[j]
    /\ \A i \in DOMAIN ds_window : ds_window[i] \notin ds_failed

\* What the code keeps of C37: an attempt that succeeded is the last one, so
\* nothing is pasted after the output of a successful attempt.
C37_SuccessIsLast ==
    [][ds_success => ds_window' = ds_window]_vars

\* The text in the window comes from at most one attempt.
C37_OneAttemptOnly ==
    \A i, j \in DOMAIN ds_window : ds_window[i] = ds_window[j]

\* The sessions of the handler behind SessionPastes, under SpecDelivery: a
\* session that returned COMPLETE pasted all that was submitted.
C37_CompleteSessionPastedAll ==
    (opc = "returned" /\ final_status = "complete") => pasted = submitted

\* Under SpecDelivery: a session that did not return COMPLETE pasted nothing.
C37_FailedSessionPastedNothing ==
    (opc = "returned" /\ final_status # "complete") => pasted = <<>>

------------------------------------------------------------------------------
(* Claims about a stopped session, checked under SpecStream *)

\* C38: cancelled is not complete.  A session in which stop() was called and
\* the consumer ended without having consumed the end-of-stream sentinel does
\* not return COMPLETE from wait_for_completion (on COMPLETE the orchestrator
\* commits the exchange to memory and reports the attempt as successful).
C38_CancelledIsNotComplete ==
    (opc = "returned" /\ spc # "idle" /\ cpc = "done" /\ ~sentinel)
        => final_status # "complete"

\* The same session with text that was submitted and never pasted: it too
\* can return COMPLETE.
C38_CompleteSessionLostNothing ==
    (opc = "returned" /\ final_status = "complete") => pasted = submitted

------------------------------------------------------------------------------
(* Claims about the memory switch, checked under SpecSwitch *)

C39_UsedAgain ==
    \E w \in Workers :
        /\ memory_enabled
        /\ queries[w] = 2
        /\ history # <<>>
        /\ sent = SystemMessages \o history \o <<Message("user", TextPrompt.prompt)>>

------------------------------------------------------------------------------
(* Claims about the multimodal lookups, checked under SpecLookup *)

\* A model of a local provider: its identifier starts with ollama: or
\* lmstudio:.
C40_IsLocal(id) == Dispatch(id) \in {"ollama", "lmstudio"}

\* The name of a local model holds one of the vision keywords of its
\* provider.
C40_HoldsKeyword(id) ==
    \E kw \in (IF Dispatch(id) = "ollama" THEN OllamaKeywords ELSE LmstudioKeywords) :
        Contains(Lower(AfterFirstColon(id)), kw)

\* C40: multimodal lookup agreement.  For every selected model,
\* LLMInterface.is_multimodal() returns what ConfigManager.is_multimodal_model
\* returns for the full identifier; for a model of a local provider, with or
\* without a tag, it is true exactly when the model name holds one of the
\* vision keywords.
C40_LookupAgreement ==
    [][is_multimodal_call =>
          /\ llm_answer' = config_answer'
          /\ C40_IsLocal(selected_model) =>
                 llm_answer' = Answer(C40_HoldsKeyword(selected_model))]_vars

\* What the code keeps of C40: is_multimodal_model applied to the full
\* identifier of a local model is the keyword test.
C40_ConfigLookupLocal ==
    [][(is_multimodal_call /\ C40_IsLocal(selected_model)) =>
          config_answer' = Answer(C40_HoldsKeyword(selected_model))]_vars

\* And the two lookups agree for the models that are not local.
C40_AgreementElsewhere ==
    [][(is_multimodal_call /\ ~C40_IsLocal(selected_model)) =>
          llm_answer' = config_answer']_vars

====
